---- MODULE Spec2Model ----
(***************************************************************************)
(* A model of the simulation and concurrency core of the NBA simulation:   *)
(*   - the best-of-seven series loop (src/src/playoffs.py),                *)
(*   - the game engine NBA_Game (src/src/nba_classes.py),                  *)
(*   - the thread-pool scheduler and the two-process conference runner     *)
(*     (src/src/regular_season.py) with the venue tasks                    *)
(*     (src/src/stadium_ops.py).                                           *)
(* Each part has its own specification over the same variables; the parts  *)
(* a specification does not run stay at their initial value.               *)
(***************************************************************************)
EXTENDS Integers, Sequences, FiniteSets, TLC

VARIABLES
    \* src/src/globals.py: one copy of the module globals per OS process
    game_results,       \* [process -> [game id -> result dict]]
    playoff_results,    \* [game id -> result dict]
    \* simulate_single_series (src/src/playoffs.py)
    wins,               \* [team -> wins of the series]
    played_games,       \* the list of game results of the series
    must_win,           \* the must_win flag of each scheduled game
    gi,                 \* position of "for game in games" (1-based)
    spc,                \* control point of the series
    game_result,        \* what simulate_game_with_stadium_ops returned
    series_result,      \* what simulate_single_series returned
    skipped,            \* game ids logged as skipped (playoffs.py:335)
    \* NBA_Game (src/src/nba_classes.py)
    setup,              \* the constructor's arguments and the loaded data
    players,            \* self.players: [player name -> team of the Player]
    points,             \* the 'points' stat of each Player
    score,              \* self.score: [team -> points]
    quarters_completed, \* self.quarters_completed
    events,             \* number of entries of self.events
    regulation,         \* the score logged by "Quarter 4 ended. Score: ..."
    quarters_run,       \* the arguments of the simulate_quarter calls so far
    quarter,            \* the quarter being simulated
    possessions,        \* iterations left of "for _ in range(possessions)"
    play,               \* the last possession: category, offense, points, logged
    winner,             \* the local of run
    gpc,                \* control point of run
    \* the pools of regular_season.py and playoffs.py, one per process
    call,               \* [process -> the function its main thread runs]
    game_schedule,      \* [process -> the game ids handed to that function]
    mpc,                \* [process -> control point of the main thread]
    nsub,               \* [process -> number of executor.submit calls made]
    tstate,             \* [process -> [task -> state of the task]]
    game_lock,          \* [process -> the task holding game_lock, or NoHolder]
    stop_event,         \* [process -> venue tasks whose stop_event is set]
    stalls,             \* venue tasks whose time limit never ends their loop
    raises,             \* <<game task, point>>: the task raises at that point
    logged,             \* [process -> tasks whose exception the main thread logged]
    writes,             \* [process -> [game task -> its writes of game_results]]
    \* simulate_playoffs
    games_db,           \* rows (team1, team2, winner) of the games table
    ppc,                \* control point of simulate_playoffs
    standings,          \* get_team_standings(): records in NBA_TEAMS order
    round_index,        \* 0 first round, 1 semifinals, 2 conference finals, 3 finals
    bracket,            \* the round's dict: <<[conference, matchups], ...>>
    schedule,           \* generate_playoff_schedule of the round
    round_results,      \* results of the round's series, in the order collected
    previous_results,   \* results of the series of the round before
    errors,             \* what logging.error reported about winners
    champion,
    scheduled,          \* the game ids of every schedule of the season so far
    \* the random module of one process
    random_seed,        \* the state random.seed put the generator in
    random_state,       \* the state of the generator now
    drawn,              \* the values the game task has drawn, one per possession
    op_draws            \* [venue task -> number of values it has drawn]

globalVars == <<game_results, playoff_results>>
seriesVars == <<wins, played_games, must_win, gi, spc, game_result,
                series_result, skipped>>
gameVars == <<setup, players, points, score, quarters_completed, events,
              regulation, quarters_run, quarter, possessions, play,
              winner, gpc>>
schedVars == <<call, game_schedule, mpc, nsub, tstate, game_lock, stop_event,
               stalls, raises, logged, writes>>
playoffVars == <<games_db, ppc, standings, round_index, bracket, schedule,
                 round_results, previous_results, errors, champion, scheduled>>
randomVars == <<random_seed, random_state, drawn, op_draws>>
vars == <<globalVars, seriesVars, gameVars, schedVars, playoffVars, randomVars>>

\* what the series loop leaves alone, and what a game leaves alone
notSeries == <<gameVars, schedVars, playoffVars, randomVars>>
notGame == <<playoff_results, seriesVars, schedVars, playoffVars, randomVars>>
notSched == <<playoff_results, seriesVars, gameVars, playoffVars, randomVars>>
notPlayoffs == <<globalVars, seriesVars, gameVars, schedVars, randomVars>>
notRandom == <<globalVars, seriesVars, gameVars, schedVars, playoffVars>>

\* Python's None where a dict is expected
None == [none |-> TRUE]

\* The operating-system processes: the interpreter that runs main, and the two
\* workers of the ProcessPoolExecutor of simulate_conferences.
Procs == {"main", "east", "west"}

EmptyTable == <<>>

Put_Clobber(table, key, value) == [k \in {key} |-> value]

Put(table, key, value) ==
    [k \in DOMAIN table \cup {key} |-> IF k = key THEN value ELSE table[k]]

Digit(n) == <<"0", "1", "2", "3", "4", "5", "6", "7", "8", "9">>[n + 1]

\* f"{a}-{b}" for one-digit numbers
ScoreStr(a, b) == Digit(a) \o "-" \o Digit(b)

(***************************************************************************)
(* The playoff schedule of one series: generate_playoff_schedule           *)
(***************************************************************************)
team1 == "Alpha"
team2 == "Bravo"
Teams == {team1, team2}

series_games == 7

home_games_Shifted == {0, 1, 4, 5}

\* zero-based game numbers played on team1's court
home_games == {0, 1, 4, 6}

GameId(conf_short, round_prefix, i, game_num) ==
    conf_short \o "-" \o round_prefix \o "-" \o Digit(i) \o "-G" \o Digit(game_num)

ScheduledGame(conf_short, round_prefix, i, t1, t2, game_num) ==
    LET home_team == IF (game_num - 1) \in home_games THEN t1 ELSE t2
        away_team == IF home_team = t1 THEN t2 ELSE t1
    IN  [game_id  |-> GameId(conf_short, round_prefix, i, game_num),
         home     |-> home_team,
         away     |-> away_team,
         game_num |-> game_num]

\* the seven descriptors with the first two in the wrong order
games_Unsorted ==
    [n \in 1..series_games |->
        ScheduledGame("Eastern", "R1", 1, team1, team2,
                      IF n = 1 THEN 2 ELSE IF n = 2 THEN 1 ELSE n)]

\* the seven descriptors of the series team1 vs team2, sorted by game_num as
\* simulate_playoff_series hands them to simulate_single_series
games == [n \in 1..series_games |->
            ScheduledGame("Eastern", "R1", 1, team1, team2, n)]

GameIds == {games[n].game_id : n \in 1..series_games}

(***************************************************************************)
(* simulate_single_series                                                  *)
(***************************************************************************)
MaxWins(w) == IF w[team1] >= w[team2] THEN w[team1] ELSE w[team2]

SeriesUndecided_OffByOne(w) == MaxWins(w) <= 4

\* playoffs.py:312  max(wins.values()) < 4
SeriesUndecided(w) == MaxWins(w) < 4

WinsAfter_Both(w, won) == [t \in DOMAIN w |-> w[t] + 1]

\* playoffs.py:320  wins[winner] += 1
WinsAfter(w, won) == [w EXCEPT ![won] = @ + 1]

SeriesWinner_Flipped(w) == IF w[team1] < w[team2] THEN team1 ELSE team2

\* playoffs.py:339
SeriesWinner(w) == IF w[team1] > w[team2] THEN team1 ELSE team2

\* playoffs.py:312-316: the series is undecided, the next game is handed to
\* simulate_game_with_stadium_ops, which builds the game and its pool
LoopPlay ==
    /\ spc = "loop"
    /\ gi <= series_games
    /\ SeriesUndecided(wins)
    /\ spc' = "pool"
    /\ UNCHANGED <<globalVars, wins, played_games, must_win, gi, game_result,
                   series_result, skipped>>
    /\ UNCHANGED notSeries

\* playoffs.py:333-336
LoopSkip ==
    /\ spc = "loop"
    /\ gi <= series_games
    /\ ~SeriesUndecided(wins)
    /\ skipped' = skipped \cup {games[gi].game_id}
    /\ gi' = gi + 1
    /\ UNCHANGED <<globalVars, wins, played_games, must_win, spc, game_result,
                   series_result>>
    /\ UNCHANGED notSeries

\* What NBA_Game.run leaves in game_results for a game home vs away. The series
\* never reads it; the engine that decides it is GameSpec's.
PlayoffGameOutcomes(g) ==
    {[team1 |-> g.home, team2 |-> g.away, winner |-> w] : w \in {g.home, g.away}}

\* playoffs.py:222-233: the pool runs the game and the three venue tasks and the
\* caller joins all four. NBA_Game.run stores its result in game_results
\* (nba_classes.py:294-305). The pool's threads are modelled one by one in
\* SchedSpec; here the join is one step.
PoolJoin ==
    /\ spc = "pool"
    /\ \E r \in PlayoffGameOutcomes(games[gi]) :
         game_results' = [game_results EXCEPT
                            !["main"] = Put(@, games[gi].game_id, r)]
    /\ spc' = "lookup"
    /\ UNCHANGED <<playoff_results, wins, played_games, must_win, gi,
                   game_result, series_result, skipped>>
    /\ UNCHANGED notSeries

\* playoffs.py:241-244: the stored dict itself gets the series fields
Annotated(result, g) ==
    [k \in DOMAIN result \cup {"series", "game_number", "round", "conference"} |->
        CASE k = "series"      -> "Eastern First Round: " \o team1 \o " vs " \o team2
          [] k = "game_number" -> g.game_num
          [] k = "round"       -> "First Round"
          [] k = "conference"  -> "Eastern Conference"
          [] OTHER             -> result[k]]

\* playoffs.py:235-257
Lookup ==
    /\ spc = "lookup"
    /\ LET g == games[gi] IN
       IF g.game_id \in DOMAIN playoff_results
       THEN LET result == playoff_results[g.game_id] IN
            /\ playoff_results' =
                   [playoff_results EXCEPT ![g.game_id] = Annotated(result, g)]
            /\ game_result' = [game_num |-> g.game_num,
                               home     |-> g.home,
                               away     |-> g.away,
                               winner   |-> result.winner,
                               score    |-> ScoreStr(result.score1, result.score2)]
       ELSE /\ game_result' = None
            /\ UNCHANGED playoff_results
    /\ spc' = "apply"
    /\ UNCHANGED <<game_results, wins, played_games, must_win, gi,
                   series_result, skipped>>
    /\ UNCHANGED notSeries

\* playoffs.py:318-332
ApplyResult ==
    /\ spc = "apply"
    /\ IF game_result # None
       THEN /\ wins' = WinsAfter(wins, game_result.winner)
            /\ played_games' = Append(played_games, game_result)
       ELSE UNCHANGED <<wins, played_games>>
    /\ must_win' = IF wins'[team1] = 3 \/ wins'[team2] = 3
                   THEN [n \in 1..series_games |->
                            IF games[n].game_num > games[gi].game_num
                            THEN TRUE ELSE must_win[n]]
                   ELSE must_win
    /\ gi' = gi + 1
    /\ spc' = "loop"
    /\ UNCHANGED <<globalVars, game_result, series_result, skipped>>
    /\ UNCHANGED notSeries

\* playoffs.py:338-358
Finish ==
    /\ spc = "loop"
    /\ gi > series_games
    /\ series_result' = [winner |-> SeriesWinner(wins),
                         score  |-> ScoreStr(wins[team1], wins[team2]),
                         games  |-> played_games]
    /\ spc' = "done"
    /\ UNCHANGED <<globalVars, wins, played_games, must_win, gi, game_result,
                   skipped>>
    /\ UNCHANGED notSeries

(***************************************************************************)
(* NBA_Game: the possession engine and run                                 *)
(***************************************************************************)
\* possessions = random.randint(20, 30), scaled down to 1..MaxPoss
MaxPoss == 1

\* probabilities in thousandths
home_shooting_boost == 30
default_2p == 450
default_3p == 350
default_ft == 750

\* nba_classes.py:136
default_stats == [p2 |-> default_2p, p3 |-> default_3p, ft |-> default_ft]

\* [f"Player{i}" for i in range(1, 16)]: two of the fifteen, which are alike
DefaultRoster == {"Player1", "Player2"}

\* NBA_PLAYERS of data/nba_data.json: team id -> roster
NBA_PLAYERS == [id \in {"1", "2"} |-> IF id = "1" THEN {"a1"} ELSE {"b1"}]

NoId == "None"

\* nba_classes.py:15-21
get_team_roster(team_id) ==
    IF team_id # NoId /\ team_id \in DOMAIN NBA_PLAYERS
    THEN NBA_PLAYERS[team_id]
    ELSE DefaultRoster

Perfect == [p2 |-> 1000, p3 |-> 1000, ft |-> 1000]
Hopeless == [p2 |-> 0, p3 |-> 0, ft |-> 0]

\* The games the engine is run on: a league game whose players have ordinary
\* percentages, the two Alpha (1.0) against Bravo (0.0) games, and a game whose
\* team ids are unknown, so that both rosters are the default one.
Setups ==
    { [team1 |-> "Alpha", team2 |-> "Bravo", team1_id |-> "1", team2_id |-> "2",
       player_stats |-> [n \in {"a1"} |-> default_stats]],
      [team1 |-> "Alpha", team2 |-> "Bravo", team1_id |-> "1", team2_id |-> "2",
       player_stats |-> [n \in {"a1", "b1"} |->
                            IF n = "b1" THEN Hopeless ELSE Perfect]],
      [team1 |-> "Bravo", team2 |-> "Alpha", team1_id |-> "2", team2_id |-> "1",
       player_stats |-> [n \in {"a1", "b1"} |->
                            IF n = "b1" THEN Hopeless ELSE Perfect]],
      [team1 |-> "Alpha", team2 |-> "Bravo", team1_id |-> NoId, team2_id |-> NoId,
       player_stats |-> <<>>] }

game_id == "G1"

\* nba_classes.py:71-81: the second roster's Player replaces a first-roster
\* Player of the same name
initialize_players(s) ==
    LET roster1 == get_team_roster(s.team1_id)
        roster2 == get_team_roster(s.team2_id)
    IN  [n \in roster1 \cup roster2 |-> IF n \in roster2 THEN s.team2 ELSE s.team1]

\* nba_classes.py:88-91: the players get_random_player chooses among
TeamPlayers(team) == {n \in DOMAIN players : players[n] = team}

OtherTeam(team) == IF team = setup.team1 THEN setup.team2 ELSE setup.team1

\* player_stats.get(name, default_stats)[key]
Pct(name, key) ==
    IF name \in DOMAIN setup.player_stats
    THEN setup.player_stats[name][key]
    ELSE default_stats[key]

\* nba_classes.py:142-146 and 192-196: the boost goes to the home team only
ShotChance(name, key, offense_team) ==
    Pct(name, key) + (IF offense_team = setup.team1 THEN home_shooting_boost ELSE 0)

\* nba_classes.py:236-239: half the boost for free throws
FtChance(name, offense_team) ==
    Pct(name, "ft") + (IF offense_team = setup.team1 THEN home_shooting_boost \div 2 ELSE 0)

\* random.random() < chance, with random() in [0, 1)
Bernoulli(chance) ==
    {b \in BOOLEAN : (b /\ chance > 0) \/ (~b /\ chance < 1000)}

FtMade(chance, shots) ==
    {m \in 0..shots : (m > 0 => chance > 0) /\ (m < shots => chance < 1000)}

PlayTypes == {"2PT", "3PT", "FT", "TO", "STEAL", "BLOCK"}

\* nba_classes.py:154-166 and 204-216: a made shot is logged unless the assist
\* draw succeeds and the assisting player drawn is the shooter himself
MadeShot(value) == {[points |-> value, logged |-> l] : l \in {0, 1}}

\* a miss that takes a point away
MissedShot_Deducts == {[points |-> -1, logged |-> 1]}

\* nba_classes.py:167-186 and 217-228: a miss is rebounded and logged
MissedShot == {[points |-> 0, logged |-> 1]}

\* a turnover, steal or block that is worth two points
Resolve_TurnoverScores(play_type, offense_player, offense_team) ==
    IF play_type \in {"TO", "STEAL", "BLOCK"}
    THEN {[points |-> 2, logged |-> 1]}
    ELSE {[points |-> 0, logged |-> 1]}

\* nba_classes.py:138-260: what one possession of category play_type by
\* offense_player can do to the score and to the event log
Resolve(play_type, offense_player, offense_team) ==
    CASE play_type = "2PT" ->
            UNION {IF made THEN MadeShot(2) ELSE MissedShot :
                    made \in Bernoulli(ShotChance(offense_player, "p2", offense_team))}
      [] play_type = "3PT" ->
            UNION {IF made THEN MadeShot(3) ELSE MissedShot :
                    made \in Bernoulli(ShotChance(offense_player, "p3", offense_team))}
      [] play_type = "FT" ->
            UNION {{[points |-> made, logged |-> 1] :
                        made \in FtMade(FtChance(offense_player, offense_team), shots)} :
                    shots \in 1..3}
      [] OTHER -> {[points |-> 0, logged |-> 1]}

\* an update of the 'points' stat that is lost
update_stat_Lost(stats, name, value) == stats

\* nba_classes.py:39-41: Player.update_stat('points', value) of the Player name
update_stat(stats, name, value) == [stats EXCEPT ![name] = @ + value]

NoPlay == [type |-> "none", offense |-> "none", points |-> 0, logged |-> 0]

\* nba_classes.py:269
RunStart ==
    /\ gpc = "start"
    /\ events' = events + 1
    /\ quarter' = 1
    /\ gpc' = "quarter"
    /\ UNCHANGED <<game_results, setup, players, points, score,
                   quarters_completed, regulation, quarters_run,
                   possessions, play, winner>>
    /\ UNCHANGED notGame

\* nba_classes.py:95-106
QuarterStart ==
    /\ gpc = "quarter"
    /\ events' = events + 1
    /\ quarters_run' = Append(quarters_run, quarter)
    /\ possessions' \in 1..MaxPoss
    /\ gpc' = "possession"
    /\ UNCHANGED <<game_results, setup, players, points, score,
                   quarters_completed, regulation, quarter, play, winner>>
    /\ UNCHANGED notGame

\* a possession without players that is logged all the same
EmptyPossession_Logged ==
    /\ gpc = "possession"
    /\ possessions > 0
    /\ \E offense_team \in {setup.team1, setup.team2} :
         /\ \/ TeamPlayers(offense_team) = {}
            \/ TeamPlayers(OtherTeam(offense_team)) = {}
         /\ play' = [NoPlay EXCEPT !.offense = offense_team]
    /\ possessions' = possessions - 1
    /\ events' = events + 1
    /\ UNCHANGED <<game_results, setup, players, points, score,
                   quarters_completed, regulation, quarters_run,
                   quarter, winner, gpc>>
    /\ UNCHANGED notGame

\* nba_classes.py:116-121: a team without players makes the possession a no-op
EmptyPossession ==
    /\ gpc = "possession"
    /\ possessions > 0
    /\ \E offense_team \in {setup.team1, setup.team2} :
         /\ \/ TeamPlayers(offense_team) = {}
            \/ TeamPlayers(OtherTeam(offense_team)) = {}
         /\ play' = [NoPlay EXCEPT !.offense = offense_team]
    /\ possessions' = possessions - 1
    /\ UNCHANGED <<game_results, setup, players, points, score,
                   quarters_completed, events, regulation, quarters_run,
                   quarter, winner, gpc>>
    /\ UNCHANGED notGame

\* nba_classes.py:107-263: one iteration of the possession loop
Possession ==
    /\ gpc = "possession"
    /\ possessions > 0
    /\ \E offense_team \in {setup.team1, setup.team2} :
         /\ TeamPlayers(OtherTeam(offense_team)) # {}
         /\ \E offense_player \in TeamPlayers(offense_team), play_type \in PlayTypes :
              \E r \in Resolve(play_type, offense_player, offense_team) :
                 /\ score' = [score EXCEPT ![offense_team] = @ + r.points]
                 /\ points' = update_stat(points, offense_player, r.points)
                 /\ events' = events + r.logged
                 /\ play' = [type |-> play_type, offense |-> offense_team,
                             points |-> r.points, logged |-> r.logged]
    /\ possessions' = possessions - 1
    /\ UNCHANGED <<game_results, setup, players, quarters_completed,
                   regulation, quarters_run, quarter, winner, gpc>>
    /\ UNCHANGED notGame

\* nba_classes.py:265-266 and 272-278: the quarter ends; after quarters 1 to 3
\* comes the break and the next quarter, after quarter 4 the tie test, and
\* after the overtime the end of the game
QuarterEnd ==
    /\ gpc = "possession"
    /\ possessions = 0
    /\ regulation' = IF quarter = 4 THEN score ELSE regulation
    /\ quarters_completed' = quarters_completed + 1
    /\ events' = events + (IF quarter < 4 THEN 2 ELSE 1)
    /\ quarter' = IF quarter < 4 THEN quarter + 1 ELSE quarter
    /\ gpc' = CASE quarter < 4 -> "quarter"
                [] quarter = 4 -> "tie_test"
                [] OTHER       -> "final"
    /\ UNCHANGED <<game_results, setup, players, points, score, quarters_run,
                   possessions, play, winner>>
    /\ UNCHANGED notGame

NeedsOvertime_Never(s) == FALSE

\* nba_classes.py:281
NeedsOvertime(s) == s[setup.team1] = s[setup.team2]

\* nba_classes.py:281-284
TieTest ==
    /\ gpc = "tie_test"
    /\ IF NeedsOvertime(score)
       THEN /\ events' = events + 1
            /\ quarter' = 5
            /\ gpc' = "quarter"
       ELSE /\ gpc' = "final"
            /\ UNCHANGED <<events, quarter>>
    /\ UNCHANGED <<game_results, setup, players, points, score,
                   quarters_completed, regulation, quarters_run,
                   possessions, play, winner>>
    /\ UNCHANGED notGame

MaxScore_Lower(s) == IF s[setup.team1] <= s[setup.team2] THEN setup.team1 ELSE setup.team2

\* nba_classes.py:286  max(self.score, key=self.score.get): the first key, in
\* insertion order team1 then team2, among those of maximal score
MaxScore(s) == IF s[setup.team1] >= s[setup.team2] THEN setup.team1 ELSE setup.team2

\* nba_classes.py:286-291
Final ==
    /\ gpc = "final"
    /\ winner' = MaxScore(score)
    /\ events' = events + 2
    /\ gpc' = "store"
    /\ UNCHANGED <<game_results, setup, players, points, score,
                   quarters_completed, regulation, quarters_run, quarter,
                   possessions, play>>
    /\ UNCHANGED notGame

\* nba_classes.py:295-305: the dict stored under the game id
ResultDict ==
    [team1        |-> setup.team1,
     team2        |-> setup.team2,
     score1       |-> score[setup.team1],
     score2       |-> score[setup.team2],
     winner       |-> winner,
     events       |-> events,
     player_stats |-> [n \in DOMAIN players |->
                          [points |-> points[n], team |-> players[n]]]]

\* nba_classes.py:293-305
Store ==
    /\ gpc = "store"
    /\ game_results' = [game_results EXCEPT !["main"] = Put(@, game_id, ResultDict)]
    /\ gpc' = "save"
    /\ UNCHANGED <<setup, players, points, score, quarters_completed, events,
                   regulation, quarters_run, quarter, possessions, play,
                   winner>>
    /\ UNCHANGED notGame

\* a save that adds an entry to the event log
Save_Logging ==
    /\ gpc = "save"
    /\ events' = events + 1
    /\ gpc' = "signal"
    /\ UNCHANGED <<game_results, setup, players, points, score,
                   quarters_completed, regulation, quarters_run,
                   quarter, possessions, play, winner>>
    /\ UNCHANGED notGame

\* nba_classes.py:307-308: save_game_to_db(self.game_id, game_results[...])
Save ==
    /\ gpc = "save"
    /\ gpc' = "signal"
    /\ UNCHANGED <<game_results, setup, players, points, score,
                   quarters_completed, events, regulation, quarters_run,
                   quarter, possessions, play, winner>>
    /\ UNCHANGED notGame

\* nba_classes.py:310-311: self.game_ended.set(); gpc = "done" is the set flag
SetEnded ==
    /\ gpc = "signal"
    /\ gpc' = "done"
    /\ UNCHANGED <<game_results, setup, players, points, score,
                   quarters_completed, events, regulation, quarters_run,
                   quarter, possessions, play, winner>>
    /\ UNCHANGED notGame

(***************************************************************************)
(* NBA_Game of scripts/nba_sim_v4_with_stats.py: the same variables hold   *)
(* the state of a game of that script; play.offense is possession_team     *)
(***************************************************************************)
\* possessions of one period (48 in a quarter, 20 in an overtime)
V4Possessions == 2

\* overtime_count is kept up to this value and stays there
MaxOvertimes == 2

\* a team scores only up to this score
MaxV4Score == 3

\* the length of the event log is kept up to this value and stays there
MaxV4Events == 12

LastPeriod == 4 + MaxOvertimes

\* NBA_PLAYERS of nba_data.json: team "3" has an empty list of players
V4_NBA_PLAYERS ==
    [id \in {"1", "2", "3"} |->
        CASE id = "1" -> {"a1"} [] id = "2" -> {"b1"} [] OTHER -> {}]

\* nba_sim_v4_with_stats.py:286-292
v4_get_team_roster(team_id) ==
    IF team_id \in DOMAIN V4_NBA_PLAYERS THEN V4_NBA_PLAYERS[team_id]
    ELSE DefaultRoster

\* nba_sim_v4_with_stats.py:518-534: a team without id gets players named
\* after the team; the second roster's Player replaces a first-roster Player
\* of the same name. Every roster of the model has at most five players, so
\* substitute_players makes all of them active.
v4_initialize_players(s) ==
    LET roster1 == IF s.team1_id # NoId THEN v4_get_team_roster(s.team1_id)
                   ELSE {s.team1 \o "Player1"}
        roster2 == IF s.team2_id # NoId THEN v4_get_team_roster(s.team2_id)
                   ELSE {s.team2 \o "Player1"}
    IN  [n \in roster1 \cup roster2 |-> IF n \in roster2 THEN s.team2 ELSE s.team1]

\* The games the script's engine is run on: two league teams, two teams whose
\* ids are not in NBA_PLAYERS, a league team against the team of the empty
\* list, and two teams without id.
V4Setups ==
    { [team1 |-> "Alpha", team2 |-> "Bravo", team1_id |-> i, team2_id |-> j,
       player_stats |-> <<>>] :
         <<i, j>> \in {<<"1", "2">>, <<"X", "Y">>, <<"1", "3">>, <<NoId, NoId>>} }

\* nba_sim_v4_with_stats.py:491-516: the constructor has logged the two
\* substitutions of initialize_players
V4Constructed(s) ==
    /\ setup = s
    /\ players = v4_initialize_players(s)
    /\ points = [n \in DOMAIN v4_initialize_players(s) |-> 0]
    /\ score = [t \in {s.team1, s.team2} |-> 0]
    /\ quarters_completed = 0
    /\ events = 2
    /\ regulation = None
    /\ quarters_run = <<>>
    /\ quarter = 0
    /\ possessions = 0
    /\ play = NoPlay
    /\ winner = "none"

\* the length of the log after n more add_event calls
V4Log(n) == IF events + n > MaxV4Events THEN MaxV4Events ELSE events + n

V4NextPeriod(q) == IF q < LastPeriod THEN q + 1 ELSE q

\* nba_sim_v4_with_stats.py:706-712
V4RunStart ==
    /\ gpc = "start"
    /\ events' = V4Log(1)
    /\ quarter' = 1
    /\ gpc' = "quarter"
    /\ UNCHANGED <<game_results, setup, players, points, score,
                   quarters_completed, regulation, quarters_run,
                   possessions, play, winner>>
    /\ UNCHANGED notGame

\* nba_sim_v4_with_stats.py:661-673: the period starts, a team is drawn for
\* the first possession, both teams substitute
V4QuarterStart ==
    /\ gpc = "quarter"
    /\ events' = V4Log(3)
    /\ \E t \in {setup.team1, setup.team2} :
         play' = [NoPlay EXCEPT !.offense = t]
    /\ possessions' = V4Possessions
    /\ gpc' = "possession"
    /\ UNCHANGED <<game_results, setup, players, points, score,
                   quarters_completed, regulation, quarters_run, quarter,
                   winner>>
    /\ UNCHANGED notGame

\* nba_sim_v4_with_stats.py:558-567 and 692-697: a team without an active
\* player makes the possession return at once; the possession changes sides
V4EmptyPossession ==
    /\ gpc = "possession"
    /\ possessions > 0
    /\ \/ TeamPlayers(play.offense) = {}
       \/ TeamPlayers(OtherTeam(play.offense)) = {}
    /\ play' = [NoPlay EXCEPT !.offense = OtherTeam(play.offense)]
    /\ possessions' = possessions - 1
    /\ UNCHANGED <<game_results, setup, players, points, score,
                   quarters_completed, events, regulation, quarters_run,
                   quarter, winner, gpc>>
    /\ UNCHANGED notGame

\* nba_sim_v4_with_stats.py:569-659: a turnover or steal (one event), a block
\* and its rebound (two events), a made two- or three-pointer (one event), or
\* a miss and its rebound (two events)
V4Outcomes(offense_team) ==
    {[type |-> "TO", points |-> 0, logged |-> 1],
     [type |-> "BLOCK", points |-> 0, logged |-> 2],
     [type |-> "2PT", points |-> 0, logged |-> 2],
     [type |-> "3PT", points |-> 0, logged |-> 2]}
    \cup {[type |-> IF v = 2 THEN "2PT" ELSE "3PT", points |-> v, logged |-> 1] :
            v \in {w \in {2, 3} : score[offense_team] + w <= MaxV4Score}}

\* nba_sim_v4_with_stats.py:558-659 and 692-697: one possession of
\* possession_team, after which the possession changes sides
V4Possession ==
    /\ gpc = "possession"
    /\ possessions > 0
    /\ TeamPlayers(play.offense) # {}
    /\ TeamPlayers(OtherTeam(play.offense)) # {}
    /\ \E offense_player \in TeamPlayers(play.offense) :
         \E r \in V4Outcomes(play.offense) :
            /\ score' = [score EXCEPT ![play.offense] = @ + r.points]
            /\ points' = update_stat(points, offense_player, r.points)
            /\ events' = V4Log(r.logged)
            /\ play' = [type |-> r.type, offense |-> OtherTeam(play.offense),
                        points |-> r.points, logged |-> r.logged]
    /\ possessions' = possessions - 1
    /\ UNCHANGED <<game_results, setup, players, quarters_completed,
                   regulation, quarters_run, quarter, winner, gpc>>
    /\ UNCHANGED notGame

\* nba_sim_v4_with_stats.py:698-704 and 712-716: a substitution may be logged,
\* the period ends; after quarters 1 to 3 comes the next quarter, after
\* quarter 4 and after every overtime the test of the while loop
V4QuarterEnd ==
    /\ gpc = "possession"
    /\ possessions = 0
    /\ \E substitution \in {0, 1} : events' = V4Log(substitution + 1)
    /\ quarters_completed' = V4NextPeriod(quarters_completed)
    /\ quarter' = IF quarter < 4 THEN quarter + 1 ELSE quarter
    /\ gpc' = IF quarter < 4 THEN "quarter" ELSE "tie_test"
    /\ UNCHANGED <<game_results, setup, players, points, score, regulation,
                   quarters_run, possessions, play, winner>>
    /\ UNCHANGED notGame

\* nba_sim_v4_with_stats.py:720  while self.score[self.team1] == self.score[self.team2]
V4Tied(s) == s[setup.team1] = s[setup.team2]

\* nba_sim_v4_with_stats.py:718-729: the test of the overtime loop, and the
\* start of one more overtime while the scores are equal
V4TieTest ==
    /\ gpc = "tie_test"
    /\ IF V4Tied(score)
       THEN /\ events' = V4Log(1)
            /\ quarter' = V4NextPeriod(quarter)
            /\ gpc' = "quarter"
       ELSE /\ gpc' = "final"
            /\ UNCHANGED <<events, quarter>>
    /\ UNCHANGED <<game_results, setup, players, points, score,
                   quarters_completed, regulation, quarters_run,
                   possessions, play, winner>>
    /\ UNCHANGED notGame

\* nba_sim_v4_with_stats.py:731-736
V4Final ==
    /\ gpc = "final"
    /\ winner' = IF score[setup.team1] > score[setup.team2]
                 THEN setup.team1 ELSE setup.team2
    /\ events' = V4Log(2)
    /\ gpc' = "store"
    /\ UNCHANGED <<game_results, setup, players, points, score,
                   quarters_completed, regulation, quarters_run, quarter,
                   possessions, play>>
    /\ UNCHANGED notGame

\* nba_sim_v4_with_stats.py:738-750: the dict has the fields of ResultDict
V4Store ==
    /\ gpc = "store"
    /\ game_results' = [game_results EXCEPT !["main"] = Put(@, game_id, ResultDict)]
    /\ gpc' = "signal"
    /\ UNCHANGED <<setup, players, points, score, quarters_completed, events,
                   regulation, quarters_run, quarter, possessions, play,
                   winner>>
    /\ UNCHANGED notGame

\* nba_sim_v4_with_stats.py:752-753: self.game_ended.set()
V4SetEnded ==
    /\ gpc = "signal"
    /\ gpc' = "save"
    /\ UNCHANGED <<game_results, setup, players, points, score,
                   quarters_completed, events, regulation, quarters_run,
                   quarter, possessions, play, winner>>
    /\ UNCHANGED notGame

\* nba_sim_v4_with_stats.py:755-759: save_game_to_db, whose exception is
\* caught and logged; run returns
V4Save ==
    /\ gpc = "save"
    /\ gpc' = "done"
    /\ UNCHANGED <<game_results, setup, players, points, score,
                   quarters_completed, events, regulation, quarters_run,
                   quarter, possessions, play, winner>>
    /\ UNCHANGED notGame

(***************************************************************************)
(* The thread pools: simulate_parallel_games, the pool of                  *)
(* simulate_game_with_stadium_ops, the venue tasks and the game task       *)
(***************************************************************************)
\* longest schedule handed to simulate_parallel_games
MaxGames == 2

\* game_lock is held by no thread
NoHolder == <<>>

OpKinds == {"security", "concessions", "merchandise"}

\* regular_season.py:172-178: the venue tasks are submitted before the game
ParallelOrder == <<"security", "concessions", "merchandise", "game">>

\* playoffs.py:224-227: the game is submitted first
StadiumOrder == <<"game", "security", "concessions", "merchandise">>

SubmitOrder(p) == IF call[p] = "parallel_games" THEN ParallelOrder ELSE StadiumOrder

\* regular_season.py:143  max_workers=len(game_schedule); playoffs.py:223
max_workers(p) ==
    IF call[p] = "parallel_games" THEN Len(game_schedule[p]) ELSE Len(StadiumOrder)

\* the n-th task submitted by process p: <<game id, kind>>
TaskAt(p, n) ==
    <<game_schedule[p][((n - 1) \div 4) + 1], SubmitOrder(p)[((n - 1) % 4) + 1]>>

NumTasks(p) == 4 * Len(game_schedule[p])

\* every task the call will submit: the domain of tstate[p]
Tasks(p) == DOMAIN tstate[p]

GameTasks(p) == {t \in Tasks(p) : t[2] = "game"}

OpTasks(p) == {t \in Tasks(p) : t[2] \in OpKinds}

\* the threads of the pool that are executing a task
Busy(p) ==
    {t \in Tasks(p) : tstate[p][t] \notin {"new", "pending", "done", "raised"}}

\* a join that waits for the venue tasks only
AllDone_VenueOnly(p) == \A t \in OpTasks(p) : tstate[p][t] \in {"done", "raised"}

\* every future has completed, with a result or with an exception
AllDone(p) == \A t \in Tasks(p) : tstate[p][t] \in {"done", "raised"}

\* the futures that completed with an exception
Failed(p) == {t \in Tasks(p) : tstate[p][t] = "raised"}

\* regular_season.py:143 and playoffs.py:223: the pool is created; an empty
\* schedule makes ThreadPoolExecutor(max_workers=0) raise ValueError
PoolCreate ==
    \E p \in Procs :
      /\ mpc[p] = "call"
      /\ mpc' = [mpc EXCEPT ![p] = IF max_workers(p) > 0 THEN "submit" ELSE "raised"]
      /\ UNCHANGED <<game_results, call, game_schedule, nsub, tstate, game_lock,
                     stop_event, stalls, raises, logged>>
      /\ UNCHANGED writes
      /\ UNCHANGED notSched

\* regular_season.py:172-178 and playoffs.py:224-227: one executor.submit
PoolSubmit ==
    \E p \in Procs :
      /\ mpc[p] = "submit"
      /\ nsub[p] < NumTasks(p)
      /\ nsub' = [nsub EXCEPT ![p] = @ + 1]
      /\ tstate' = [tstate EXCEPT ![p][TaskAt(p, nsub[p] + 1)] = "pending"]
      /\ UNCHANGED <<game_results, call, game_schedule, mpc, game_lock,
                     stop_event, stalls, raises, logged>>
      /\ UNCHANGED writes
      /\ UNCHANGED notSched

\* the loop of submissions is over: the main thread starts waiting
SubmitDone ==
    \E p \in Procs :
      /\ mpc[p] = "submit"
      /\ nsub[p] = NumTasks(p)
      /\ mpc' = [mpc EXCEPT ![p] = "wait"]
      /\ UNCHANGED <<game_results, call, game_schedule, nsub, tstate, game_lock,
                     stop_event, stalls, raises, logged>>
      /\ UNCHANGED writes
      /\ UNCHANGED notSched

\* ThreadPoolExecutor: a thread of the pool, of which there are at most
\* max_workers, takes the oldest task of the work queue
TaskStart ==
    \E p \in Procs : \E n \in 1..NumTasks(p) :
      /\ n <= nsub[p]
      /\ tstate[p][TaskAt(p, n)] = "pending"
      /\ \A m \in 1..(n - 1) : tstate[p][TaskAt(p, m)] # "pending"
      /\ Cardinality(Busy(p)) < max_workers(p)
      /\ tstate' = [tstate EXCEPT ![p][TaskAt(p, n)] = "running"]
      /\ UNCHANGED <<game_results, call, game_schedule, mpc, nsub, game_lock,
                     stop_event, stalls, raises, logged>>
      /\ UNCHANGED writes
      /\ UNCHANGED notSched

\* a venue task that only a set stop_event ends
OpStops_OnSignalOnly(p, t) == t \in stop_event[p]

\* stadium_ops.py:50, 103, 145: while not self.stop_event.is_set() and
\* time.time() < end_time: the loop ends on the signal or at the time limit
OpStops(p, t) == t \in stop_event[p] \/ t \notin stalls

\* stadium_ops.py:21-36, with the loops of 50, 103 and 145: the task leaves
\* its loop when its stop_event is set or its time limit is reached, saves
\* its counters and ends
OpFinish ==
    \E p \in Procs : \E t \in OpTasks(p) :
      /\ tstate[p][t] = "running"
      /\ OpStops(p, t)
      /\ tstate' = [tstate EXCEPT ![p][t] = "done"]
      /\ UNCHANGED <<game_results, call, game_schedule, mpc, nsub, game_lock,
                     stop_event, stalls, raises, logged>>
      /\ UNCHANGED writes
      /\ UNCHANGED notSched

\* nba_classes.py:268-291: the quarters are played (GameSpec) and the winner
\* is known
GamePlayed ==
    \E p \in Procs : \E t \in GameTasks(p) :
      /\ tstate[p][t] = "running"
      /\ <<t, "play">> \notin raises
      /\ tstate' = [tstate EXCEPT ![p][t] = "played"]
      /\ UNCHANGED <<game_results, call, game_schedule, mpc, nsub, game_lock,
                     stop_event, stalls, raises, logged>>
      /\ UNCHANGED writes
      /\ UNCHANGED notSched

\* nba_classes.py:268-291: an exception leaves run before anything is stored;
\* the future of the task holds it
PlayRaise ==
    \E p \in Procs : \E t \in GameTasks(p) :
      /\ tstate[p][t] = "running"
      /\ <<t, "play">> \in raises
      /\ tstate' = [tstate EXCEPT ![p][t] = "raised"]
      /\ UNCHANGED <<game_results, call, game_schedule, mpc, nsub, game_lock,
                     stop_event, stalls, raises, logged>>
      /\ UNCHANGED writes
      /\ UNCHANGED notSched

\* a lock every thread may take at any time
Acquirable_Always(p) == TRUE

\* threading.Lock: acquire returns only while no thread holds the lock
Acquirable(p) == game_lock[p] = NoHolder

\* nba_classes.py:294  with game_lock: (acquire)
GameAcquire ==
    \E p \in Procs : \E t \in GameTasks(p) :
      /\ tstate[p][t] = "played"
      /\ Acquirable(p)
      /\ game_lock' = [game_lock EXCEPT ![p] = t]
      /\ tstate' = [tstate EXCEPT ![p][t] = "locked"]
      /\ UNCHANGED <<game_results, call, game_schedule, mpc, nsub, stop_event,
                     stalls, raises, logged>>
      /\ UNCHANGED writes
      /\ UNCHANGED notSched

\* The dict a game of the schedule stores: Alpha at home against Bravo in the
\* arena of the game.
ScheduledOutcomes(gid) ==
    {[team1 |-> team1, team2 |-> team2, winner |-> w, arena |-> "Arena " \o gid] :
        w \in Teams}

\* nba_classes.py:295-305
GameWrite ==
    \E p \in Procs : \E t \in GameTasks(p) :
      /\ tstate[p][t] = "locked"
      /\ \E r \in ScheduledOutcomes(t[1]) :
           game_results' = [game_results EXCEPT ![p] = Put(@, t[1], r)]
      /\ tstate' = [tstate EXCEPT ![p][t] = "written"]
      /\ UNCHANGED <<call, game_schedule, mpc, nsub, game_lock, stop_event,
                     stalls, raises, logged>>
      /\ writes' = [writes EXCEPT ![p][t] = @ + 1]
      /\ UNCHANGED notSched

\* nba_classes.py:294-305: the with block is left (release)
GameRelease ==
    \E p \in Procs : \E t \in GameTasks(p) :
      /\ tstate[p][t] = "written"
      /\ game_lock' = [game_lock EXCEPT ![p] = NoHolder]
      /\ tstate' = [tstate EXCEPT ![p][t] = "released"]
      /\ UNCHANGED <<game_results, call, game_schedule, mpc, nsub, stop_event,
                     stalls, raises, logged>>
      /\ UNCHANGED writes
      /\ UNCHANGED notSched

\* nba_classes.py:307-308
GameSave ==
    \E p \in Procs : \E t \in GameTasks(p) :
      /\ tstate[p][t] = "released"
      /\ <<t, "save">> \notin raises
      /\ tstate' = [tstate EXCEPT ![p][t] = "saved"]
      /\ UNCHANGED <<game_results, call, game_schedule, mpc, nsub, game_lock,
                     stop_event, stalls, raises, logged>>
      /\ UNCHANGED writes
      /\ UNCHANGED notSched

\* nba_classes.py:308 with database.py:101-132: save_game_to_db logs and
\* raises again what the database raised; run ends there, game_ended unset
SaveRaise ==
    \E p \in Procs : \E t \in GameTasks(p) :
      /\ tstate[p][t] = "released"
      /\ <<t, "save">> \in raises
      /\ tstate' = [tstate EXCEPT ![p][t] = "raised"]
      /\ UNCHANGED <<game_results, call, game_schedule, mpc, nsub, game_lock,
                     stop_event, stalls, raises, logged>>
      /\ UNCHANGED writes
      /\ UNCHANGED notSched

\* nba_classes.py:310-311: game_ended is set and the task ends
GameEnd ==
    \E p \in Procs : \E t \in GameTasks(p) :
      /\ tstate[p][t] = "saved"
      /\ tstate' = [tstate EXCEPT ![p][t] = "done"]
      /\ UNCHANGED <<game_results, call, game_schedule, mpc, nsub, game_lock,
                     stop_event, stalls, raises, logged>>
      /\ UNCHANGED writes
      /\ UNCHANGED notSched

\* regular_season.py:184-190: the loop over as_completed(all_futures) ends
\* when every future, of a game or of a venue task, has completed; the
\* exception of a future is caught and logged
ParallelJoin ==
    \E p \in Procs :
      /\ call[p] = "parallel_games"
      /\ mpc[p] = "wait"
      /\ AllDone(p)
      /\ logged' = [logged EXCEPT ![p] = Failed(p)]
      /\ mpc' = [mpc EXCEPT ![p] = "signal"]
      /\ UNCHANGED <<game_results, call, game_schedule, nsub, tstate, game_lock,
                     stop_event, stalls, raises>>
      /\ UNCHANGED writes
      /\ UNCHANGED notSched

\* regular_season.py:192-194
ParallelSignal ==
    \E p \in Procs :
      /\ call[p] = "parallel_games"
      /\ mpc[p] = "signal"
      /\ stop_event' = [stop_event EXCEPT ![p] = OpTasks(p)]
      /\ mpc' = [mpc EXCEPT ![p] = "exit"]
      /\ UNCHANGED <<game_results, call, game_schedule, nsub, tstate, game_lock,
                     stalls, raises, logged>>
      /\ UNCHANGED writes
      /\ UNCHANGED notSched

\* playoffs.py:229-233: result() of the game future, then of each venue
\* future; game_future.result() raises what the game task raised
StadiumJoin ==
    \E p \in Procs :
      /\ call[p] = "stadium_ops"
      /\ mpc[p] = "wait"
      /\ \/ AllDone(p)
         \/ GameTasks(p) \cap Failed(p) # {}
      /\ mpc' = [mpc EXCEPT ![p] =
                    IF GameTasks(p) \cap Failed(p) # {} THEN "raising" ELSE "exit"]
      /\ UNCHANGED <<game_results, call, game_schedule, nsub, tstate, game_lock,
                     stop_event, stalls, raises, logged>>
      /\ UNCHANGED writes
      /\ UNCHANGED notSched

\* the with block of the executor is left: shutdown(wait=True) joins the
\* threads of the pool, and the function goes on to its end or lets the
\* exception out
PoolExit ==
    \E p \in Procs :
      /\ mpc[p] \in {"exit", "raising"}
      /\ AllDone(p)
      /\ mpc' = [mpc EXCEPT ![p] = IF @ = "exit" THEN "returned" ELSE "raised"]
      /\ UNCHANGED <<game_results, call, game_schedule, nsub, tstate, game_lock,
                     stop_event, stalls, raises, logged>>
      /\ UNCHANGED writes
      /\ UNCHANGED notSched

(***************************************************************************)
(* simulate_conferences: one child process per conference                  *)
(***************************************************************************)
\* longest schedule of one conference
ConfGames == 1

Children == {"east", "west"}

\* what the process of a conference starts from: the function and its
\* argument are sent to the child, whose module globals are its own (the
\* parent's game_results as it is at that moment, in the child's memory)
ChildStart(p) ==
    /\ call' = [call EXCEPT ![p] = "parallel_games"]
    /\ game_results' = [game_results EXCEPT ![p] = game_results["main"]]

\* regular_season.py:198-201: executor.submit(simulate_parallel_games, east_schedule)
SubmitEast ==
    /\ call["main"] = "conferences"
    /\ mpc["main"] = "submit_east"
    /\ ChildStart("east")
    /\ mpc' = [mpc EXCEPT !["main"] = "submit_west", !["east"] = "call"]
    /\ UNCHANGED <<game_schedule, nsub, tstate, game_lock, stop_event, stalls, raises, logged>>
    /\ UNCHANGED writes
    /\ UNCHANGED notSched

\* regular_season.py:202-203
SubmitWest ==
    /\ call["main"] = "conferences"
    /\ mpc["main"] = "submit_west"
    /\ ChildStart("west")
    /\ mpc' = [mpc EXCEPT !["main"] = "wait_east", !["west"] = "call"]
    /\ UNCHANGED <<game_schedule, nsub, tstate, game_lock, stop_event, stalls, raises, logged>>
    /\ UNCHANGED writes
    /\ UNCHANGED notSched

\* regular_season.py:206-207: east_future.result() returns the None the child
\* returned, or raises what the child raised
WaitEast ==
    /\ mpc["main"] = "wait_east"
    /\ mpc["east"] \in {"returned", "raised"}
    /\ mpc' = [mpc EXCEPT !["main"] =
                  IF mpc["east"] = "returned" THEN "wait_west" ELSE "raising"]
    /\ UNCHANGED <<game_results, call, game_schedule, nsub, tstate, game_lock,
                   stop_event, stalls, raises, logged>>
    /\ UNCHANGED writes
    /\ UNCHANGED notSched

\* regular_season.py:208-209
WaitWest ==
    /\ mpc["main"] = "wait_west"
    /\ mpc["west"] \in {"returned", "raised"}
    /\ mpc' = [mpc EXCEPT !["main"] =
                  IF mpc["west"] = "returned" THEN "leave" ELSE "raising"]
    /\ UNCHANGED <<game_results, call, game_schedule, nsub, tstate, game_lock,
                   stop_event, stalls, raises, logged>>
    /\ UNCHANGED writes
    /\ UNCHANGED notSched

\* regular_season.py:198-210: the with block is left, which waits for both
\* children, and simulate_conferences returns or lets the exception out
ConferencesExit ==
    /\ call["main"] = "conferences"
    /\ mpc["main"] \in {"leave", "raising"}
    /\ \A p \in Children : mpc[p] \in {"returned", "raised"}
    /\ mpc' = [mpc EXCEPT !["main"] = IF @ = "leave" THEN "returned" ELSE "raised"]
    /\ UNCHANGED <<game_results, call, game_schedule, nsub, tstate, game_lock,
                   stop_event, stalls, raises, logged>>
    /\ UNCHANGED writes
    /\ UNCHANGED notSched

(***************************************************************************)
(* The playoffs: get_team_standings, create_playoff_bracket,               *)
(* generate_playoff_schedule and simulate_playoffs                         *)
(***************************************************************************)
\* playoffs.py:22-25 eastern_teams, of which nine teams are in NBA_TEAMS here
eastern_teams ==
    <<"Boston Celtics", "Miami Heat", "Milwaukee Bucks", "Philadelphia 76ers",
      "New York Knicks", "Cleveland Cavaliers", "Atlanta Hawks", "Chicago Bulls",
      "Toronto Raptors">>

\* the teams of NBA_TEAMS that are not in eastern_teams
western_teams ==
    <<"Los Angeles Lakers", "Golden State Warriors", "Dallas Mavericks",
      "Houston Rockets", "Denver Nuggets", "Phoenix Suns", "Memphis Grizzlies",
      "Utah Jazz", "Sacramento Kings">>

\* the names of NBA_TEAMS.values(), in the order of the data file
NBA_TEAMS == eastern_teams \o western_teams

Range(f) == {f[x] : x \in DOMAIN f}

TeamNames == Range(NBA_TEAMS)

\* team_info['arena']
Arena(team) == team \o " Arena"

\* playoffs.py:28-39: every team of NBA_TEAMS with no win and no loss, in the
\* order of NBA_TEAMS.values()
InitialStandings ==
    [n \in DOMAIN NBA_TEAMS |->
        [name       |-> NBA_TEAMS[n],
         arena      |-> Arena(NBA_TEAMS[n]),
         conference |-> IF NBA_TEAMS[n] \in Range(eastern_teams) THEN "East" ELSE "West",
         wins       |-> 0,
         losses     |-> 0]]

\* standings[team][field] += 1
Credit(st, team, field) ==
    [n \in DOMAIN st |->
        IF st[n].name = team THEN [st[n] EXCEPT ![field] = @ + 1] ELSE st[n]]

\* a row counts when its home team is known
BothKnown_HomeOnly(st, row) == row.team1 \in {st[n].name : n \in DOMAIN st}

\* playoffs.py:42  if team1 in standings and team2 in standings
BothKnown(st, row) ==
    /\ row.team1 \in {st[n].name : n \in DOMAIN st}
    /\ row.team2 \in {st[n].name : n \in DOMAIN st}

\* a game that gives the winner a win and nobody a loss
ApplyGame_WinOnly(st, row) ==
    IF BothKnown(st, row) /\ row.winner \in {row.team1, row.team2}
    THEN Credit(st, row.winner, "wins")
    ELSE st

\* playoffs.py:41-48: one iteration of "for team1, team2, winner in games"
ApplyGame(st, row) ==
    IF BothKnown(st, row)
    THEN IF row.winner = row.team1
         THEN Credit(Credit(st, row.team1, "wins"), row.team2, "losses")
         ELSE IF row.winner = row.team2
              THEN Credit(Credit(st, row.team2, "wins"), row.team1, "losses")
              ELSE st
    ELSE st

RECURSIVE Tally(_, _)
\* playoffs.py:41-48: the loop over the rows of the games table
Tally(st, rows) ==
    IF rows = <<>> THEN st ELSE Tally(ApplyGame(st, Head(rows)), Tail(rows))

\* playoffs.py:12-50
get_team_standings(rows) == Tally(InitialStandings, rows)

\* playoffs.py:57-58: the teams of one conference, in the order of standings
ConferenceTeams(st, conf) == SelectSeq(st, LAMBDA team : team.conference = conf)

\* playoffs.py:61: the sort key wins / (wins + losses), or 0 without games, as
\* a fraction <<numerator, denominator>>; the float quotients of two such
\* fractions compare as the fractions do
WinPct(team) ==
    IF team.wins + team.losses > 0
    THEN <<team.wins, team.wins + team.losses>>
    ELSE <<0, 1>>

PctGreater(a, b) == WinPct(a)[1] * WinPct(b)[2] > WinPct(b)[1] * WinPct(a)[2]

PctEqual(a, b) == WinPct(a)[1] * WinPct(b)[2] = WinPct(b)[1] * WinPct(a)[2]

\* the place of x in a list sorted in descending order: behind every element
\* that is not smaller, so that equal keys keep their order
InsertDescending_Unstable(sorted, x) ==
    LET before == SelectSeq(sorted, LAMBDA y : PctGreater(y, x))
        after  == SelectSeq(sorted, LAMBDA y : ~ PctGreater(y, x))
    IN  before \o <<x>> \o after

InsertDescending(sorted, x) ==
    LET before == SelectSeq(sorted, LAMBDA y : ~ PctGreater(x, y))
        after  == SelectSeq(sorted, LAMBDA y : PctGreater(x, y))
    IN  before \o <<x>> \o after

RECURSIVE SortDescending(_)
\* playoffs.py:61-62: list.sort(key=..., reverse=True), a stable sort
SortDescending(teams) ==
    IF teams = <<>> THEN <<>>
    ELSE InsertDescending(SortDescending(SubSeq(teams, 1, Len(teams) - 1)),
                          teams[Len(teams)])

\* playoffs.py:65-66
TopEight(teams) == SubSeq(SortDescending(teams), 1, 8)

FirstRoundMatchups_SeedSixTwice(top) ==
    <<<<top[1].name, top[8].name>>, <<top[4].name, top[5].name>>,
      <<top[3].name, top[6].name>>, <<top[2].name, top[6].name>>>>

\* playoffs.py:78-90
FirstRoundMatchups(top) ==
    <<<<top[1].name, top[8].name>>, <<top[4].name, top[5].name>>,
      <<top[3].name, top[6].name>>, <<top[2].name, top[7].name>>>>

\* playoffs.py:52-103
create_playoff_bracket(st) ==
    <<[conference |-> "Eastern Conference",
       matchups   |-> FirstRoundMatchups(TopEight(ConferenceTeams(st, "East")))],
      [conference |-> "Western Conference",
       matchups   |-> FirstRoundMatchups(TopEight(ConferenceTeams(st, "West")))]>>

\* playoffs.py:112-128
RoundName(r) ==
    <<"First Round", "Conference Semifinals", "Conference Finals", "NBA Finals">>[r + 1]

\* playoffs.py:136-141
\* one prefix for every round
RoundPrefix_Same(r) == "R1"

RoundPrefix(r) == <<"R1", "SF", "CF", "F">>[r + 1]

\* playoffs.py:133: conference.split()[0], "NBA" for the finals
ConfShort(conference) ==
    CASE conference = "NBA Finals" -> "NBA"
      [] conference \in {"Eastern Conference", "Eastern Conference Semifinals",
                         "Eastern Conference Finals"} -> "Eastern"
      [] OTHER -> "Western"

\* playoffs.py:158-163
SeriesDesc(conference, r, t1, t2) ==
    IF RoundName(r) = "NBA Finals"
    THEN "NBA Finals: " \o t1 \o " vs " \o t2
    ELSE ConfShort(conference) \o " " \o RoundName(r) \o ": " \o t1 \o " vs " \o t2

\* playoffs.py:152-176: one descriptor of the schedule
PlayoffGame(conference, r, i, t1, t2, game_num) ==
    LET g == ScheduledGame(ConfShort(conference), RoundPrefix(r), i, t1, t2, game_num)
    IN  [game_id    |-> IF RoundName(r) = "NBA Finals"
                        THEN "F-G" \o Digit(game_num) ELSE g.game_id,
         home       |-> g.home,
         away       |-> g.away,
         arena      |-> IF g.home = t1 THEN Arena(t1) ELSE Arena(t2),
         series     |-> SeriesDesc(conference, r, t1, t2),
         game_num   |-> game_num,
         conference |-> conference,
         round      |-> RoundName(r)]

\* the seven descriptors of one matchup
MatchupGames(conference, r, i, matchup) ==
    [n \in 1..series_games |->
        PlayoffGame(conference, r, i, matchup[1], matchup[2], n)]

RECURSIVE Concat(_)
Concat(seqs) ==
    IF seqs = <<>> THEN <<>> ELSE Head(seqs) \o Concat(Tail(seqs))

\* playoffs.py:105-198
generate_playoff_schedule(b, r) ==
    Concat([c \in DOMAIN b |->
        Concat([i \in DOMAIN b[c].matchups |->
            MatchupGames(b[c].conference, r, i, b[c].matchups[i])])])

\* the elements of a set of numbers in increasing order
Ascending(S) ==
    [k \in 1..Cardinality(S) |->
        CHOOSE n \in S : Cardinality({m \in S : m < n}) = k - 1]

\* playoffs.py:268-272: the series of a schedule, in the order in which their
\* first game appears (the keys of series_games)
SeriesNames(sch) ==
    LET firsts == Ascending({n \in DOMAIN sch :
                     \A m \in 1..(n - 1) : sch[m].series # sch[n].series})
    IN  [k \in DOMAIN firsts |-> sch[firsts[k]].series]

\* playoffs.py:283-288 with 296-300: the games of a series sorted by game_num,
\* team1 and team2 being the home and away team of the first of them
SeriesTeams(sch, name) ==
    LET first == CHOOSE g \in Range(sch) :
                    /\ g.series = name
                    /\ \A h \in Range(sch) : h.series = name => g.game_num <= h.game_num
    IN  [series |-> name, team1 |-> first.home, team2 |-> first.away]

\* the k-th series of the schedule
SeriesAt(sch, k) == SeriesTeams(sch, SeriesNames(sch)[k])

\* playoffs.py:364-367
GetStandings ==
    /\ ppc = "standings"
    /\ standings' = get_team_standings(games_db)
    /\ ppc' = "bracket"
    /\ UNCHANGED <<games_db, round_index, bracket, schedule, round_results,
                   previous_results, errors, champion>>
    /\ UNCHANGED scheduled
    /\ UNCHANGED notPlayoffs

\* playoffs.py:364
CreateBracket ==
    /\ ppc = "bracket"
    /\ bracket' = create_playoff_bracket(standings)
    /\ ppc' = "schedule"
    /\ UNCHANGED <<games_db, standings, round_index, schedule, round_results,
                   previous_results, errors, champion>>
    /\ UNCHANGED scheduled
    /\ UNCHANGED notPlayoffs

\* playoffs.py:367, 437, 493 and 536
GenerateSchedule ==
    /\ ppc = "schedule"
    /\ schedule' = generate_playoff_schedule(bracket, round_index)
    /\ ppc' = "simulate"
    /\ UNCHANGED <<games_db, standings, round_index, bracket, round_results,
                   previous_results, errors, champion>>
    /\ scheduled' = scheduled \o
           [n \in DOMAIN schedule' |-> schedule'[n].game_id]
    /\ UNCHANGED notPlayoffs

\* playoffs.py:291-292 with 339 and 354-358: the result of the next series is
\* collected; its winner is team1 or team2 of the series
SeriesResult ==
    /\ ppc = "simulate"
    /\ Len(round_results) < Len(SeriesNames(schedule))
    /\ LET sr == SeriesAt(schedule, Len(round_results) + 1)
       IN  \E w \in {sr.team1, sr.team2} :
             round_results' = Append(round_results, [series |-> sr.series, winner |-> w])
    /\ UNCHANGED <<games_db, ppc, standings, round_index, bracket, schedule,
                   previous_results, errors, champion>>
    /\ UNCHANGED scheduled
    /\ UNCHANGED notPlayoffs

\* a simulate_playoff_series replaced by a double: the winner it reports for
\* a series is team2, or once more the winner it reported for the series before
StubbedSeriesResult ==
    /\ ppc = "simulate"
    /\ Len(round_results) < Len(SeriesNames(schedule))
    /\ LET sr == SeriesAt(schedule, Len(round_results) + 1)
       IN  \E w \in {sr.team2} \cup
                    {round_results[n].winner : n \in {Len(round_results)} \ {0}} :
             round_results' = Append(round_results, [series |-> sr.series, winner |-> w])
    /\ UNCHANGED <<games_db, ppc, standings, round_index, bracket, schedule,
                   previous_results, errors, champion>>
    /\ UNCHANGED scheduled
    /\ UNCHANGED notPlayoffs

\* playoffs.py:294: simulate_playoff_series returns the results of the round
RoundSimulated ==
    /\ ppc = "simulate"
    /\ Len(round_results) = Len(SeriesNames(schedule))
    /\ ppc' = "advance"
    /\ UNCHANGED <<games_db, standings, round_index, bracket, schedule,
                   round_results, previous_results, errors, champion>>
    /\ UNCHANGED scheduled
    /\ UNCHANGED notPlayoffs

\* playoffs.py:386-387
ConferenceNames(st, conf) == {st[n].name : n \in {m \in DOMAIN st : st[m].conference = conf}}

\* playoffs.py:389-405 and 451-465: the winners by conference in the order of
\* the results, a winner already counted being skipped
GroupWinners(results, st) ==
    LET firsts == {n \in DOMAIN results :
                     \A m \in 1..(n - 1) : results[m].winner # results[n].winner}
        order == Ascending(firsts)
        winners == [k \in DOMAIN order |-> results[order[k]].winner]
    IN  [east    |-> SelectSeq(winners, LAMBDA w : w \in ConferenceNames(st, "East")),
         west    |-> SelectSeq(winners, LAMBDA w : w \in ConferenceNames(st, "West")),
         unknown |-> {w \in Range(winners) :
                        w \notin ConferenceNames(st, "East") \cup ConferenceNames(st, "West")}]

\* playoffs.py:413 and 417, 473 and 477: the lists written in the code
FallbackEast(r) ==
    IF r = 0
    THEN <<"Boston Celtics", "Milwaukee Bucks", "Philadelphia 76ers", "Cleveland Cavaliers">>
    ELSE <<"Boston Celtics", "Milwaukee Bucks">>

FallbackWest(r) ==
    IF r = 0
    THEN <<"Los Angeles Lakers", "Golden State Warriors", "Dallas Mavericks", "Houston Rockets">>
    ELSE <<"Los Angeles Lakers", "Denver Nuggets">>

\* playoffs.py:411-417 and 471-477
Expected(r) == IF r = 0 THEN 4 ELSE 2

WinnersOrFallback(winners, r, fallback) ==
    IF Len(winners) # Expected(r) THEN fallback ELSE winners

\* playoffs.py:405, 412, 416, 472 and 476: what logging.error reports
WinnerErrors(g, r) ==
    (IF Len(g.east) # Expected(r)
        THEN {"Incorrect number of Eastern Conference winners"} ELSE {})
    \cup (IF Len(g.west) # Expected(r)
        THEN {"Incorrect number of Western Conference winners"} ELSE {})
    \cup (IF r = 0 /\ g.unknown # {}
        THEN {"Winner not found in either conference"} ELSE {})

SemifinalMatchups_SharedTeam(w) == <<<<w[1], w[4]>>, <<w[1], w[3]>>>>

\* playoffs.py:422-429
SemifinalMatchups(w) == <<<<w[1], w[4]>>, <<w[2], w[3]>>>>

WinnersOf(results) == {results[n].winner : n \in DOMAIN results}

\* playoffs.py:374-431: the winners of the first round make the semifinals
AdvanceFirstRound ==
    /\ ppc = "advance"
    /\ round_index = 0
    /\ LET g == GroupWinners(round_results, get_team_standings(games_db))
           east_winners == WinnersOrFallback(g.east, 0, FallbackEast(0))
           west_winners == WinnersOrFallback(g.west, 0, FallbackWest(0))
       IN  /\ errors' = errors \cup WinnerErrors(g, 0)
           /\ bracket' =
                <<[conference |-> "Eastern Conference Semifinals",
                   matchups   |-> SemifinalMatchups(east_winners)],
                  [conference |-> "Western Conference Semifinals",
                   matchups   |-> SemifinalMatchups(west_winners)]>>
    /\ round_index' = 1
    /\ previous_results' = round_results
    /\ round_results' = <<>>
    /\ ppc' = "schedule"
    /\ UNCHANGED <<games_db, standings, schedule, champion>>
    /\ UNCHANGED scheduled
    /\ UNCHANGED notPlayoffs

\* playoffs.py:444-486: the winners of the semifinals make the conference finals
AdvanceSemifinals ==
    /\ ppc = "advance"
    /\ round_index = 1
    /\ LET g == GroupWinners(round_results, get_team_standings(games_db))
           east_winners == WinnersOrFallback(g.east, 1, FallbackEast(1))
           west_winners == WinnersOrFallback(g.west, 1, FallbackWest(1))
       IN  /\ errors' = errors \cup WinnerErrors(g, 1)
           /\ bracket' =
                <<[conference |-> "Eastern Conference Finals",
                   matchups   |-> <<<<east_winners[1], east_winners[2]>>>>],
                  [conference |-> "Western Conference Finals",
                   matchups   |-> <<<<west_winners[1], west_winners[2]>>>>]>>
    /\ round_index' = 2
    /\ previous_results' = round_results
    /\ round_results' = <<>>
    /\ ppc' = "schedule"
    /\ UNCHANGED <<games_db, standings, schedule, champion>>
    /\ UNCHANGED scheduled
    /\ UNCHANGED notPlayoffs

\* playoffs.py:507-512: the winner of the last result whose series name holds
\* "Eastern Conference" (or "Western Conference"), None without one
ConferenceWinner(results, sch, conf_short) ==
    LET hits == {n \in DOMAIN results :
                    \E g \in Range(sch) :
                        /\ g.series = results[n].series
                        /\ g.round # "First Round"
                        /\ ConfShort(g.conference) = conf_short}
    IN  IF hits = {} THEN <<>>
        ELSE <<results[CHOOSE n \in hits : \A m \in hits : m <= n].winner>>

\* playoffs.py:503-529: the winners of the conference finals make the finals
AdvanceConferenceFinals ==
    /\ ppc = "advance"
    /\ round_index = 2
    /\ LET east == ConferenceWinner(round_results, schedule, "Eastern")
           west == ConferenceWinner(round_results, schedule, "Western")
           east_winner == IF east = <<>> THEN "Boston Celtics" ELSE east[1]
           west_winner == IF west = <<>> THEN "Los Angeles Lakers" ELSE west[1]
       IN  /\ errors' = errors
                \cup (IF east = <<>> THEN {"Missing Eastern Conference final winner"} ELSE {})
                \cup (IF west = <<>> THEN {"Missing Western Conference final winner"} ELSE {})
           /\ bracket' = <<[conference |-> "NBA Finals",
                            matchups   |-> <<<<east_winner, west_winner>>>>]>>
    /\ round_index' = 3
    /\ previous_results' = round_results
    /\ round_results' = <<>>
    /\ ppc' = "schedule"
    /\ UNCHANGED <<games_db, standings, schedule, champion>>
    /\ UNCHANGED scheduled
    /\ UNCHANGED notPlayoffs

\* playoffs.py:539-548
Champion ==
    /\ ppc = "advance"
    /\ round_index = 3
    /\ champion' = round_results[1].winner
    /\ ppc' = "done"
    /\ UNCHANGED <<games_db, standings, round_index, bracket, schedule,
                   round_results, previous_results, errors>>
    /\ UNCHANGED scheduled
    /\ UNCHANGED notPlayoffs

(***************************************************************************)
(* The random module: one generator for the threads of a process           *)
(***************************************************************************)
\* possessions of the game
GamePossessions == 3

\* most values one venue task draws while the game is played
MaxOpDraws == 1

\* the generator: a state, and each call of random.random, random.randint,
\* random.choice or random.choices returns a value made from the state and
\* moves on to the next state (a full-period congruential generator stands
\* for the Mersenne Twister)
NextRandom(x) == (5 * x + 3) % 8

RandomStates == 0..7

\* nba_classes.py:109: the value decides which team has the possession
Offense(v) == IF v % 2 = 0 THEN team1 ELSE team2

\* nba_classes.py:131-152: and whether its two-point shot is made
ShotMade(v) == (v \div 2) % 2 = 0

\* nba_classes.py:153-157: the score the drawn values make
ScoreOf(values) ==
    [t \in Teams |->
        2 * Cardinality({n \in DOMAIN values : Offense(values[n]) = t /\ ShotMade(values[n])})]

\* nba_classes.py:286
WinnerOf(values) ==
    IF ScoreOf(values)[team2] > ScoreOf(values)[team1] THEN team2 ELSE team1

\* nba_classes.py:105-134: the game task plays a possession with the next
\* value of the generator
GameDraw ==
    /\ random_seed \in RandomStates
    /\ Len(drawn) < GamePossessions
    /\ drawn' = Append(drawn, random_state)
    /\ random_state' = NextRandom(random_state)
    /\ UNCHANGED <<random_seed, op_draws>>
    /\ UNCHANGED notRandom

\* stadium_ops.py:40, 52-63, 105-114 and 147-155: a venue task of the same
\* process draws from the same generator
OpDraw ==
    \E k \in DOMAIN op_draws :
      /\ op_draws[k] < MaxOpDraws
      /\ op_draws' = [op_draws EXCEPT ![k] = @ + 1]
      /\ random_state' = NextRandom(random_state)
      /\ UNCHANGED <<random_seed, drawn>>
      /\ UNCHANGED notRandom

(***************************************************************************)
(* Initial states and specifications                                       *)
(***************************************************************************)
\* The result of home beating away, or away beating home, as a caller that
\* fills playoff_results for the series would store it.
PresetResult(g, w) ==
    [team1 |-> g.home, team2 |-> g.away, winner |-> w,
     score1 |-> IF w = g.home THEN 2 ELSE 1,
     score2 |-> IF w = g.home THEN 1 ELSE 2]

\* playoff_results as simulate_single_series may find it. Nothing under src/src
\* writes it (globals.py:11 leaves it empty); the other tables are those of a
\* caller or test double that presets the outcome of every game of the series.
PlayoffTables ==
    {EmptyTable} \cup
    { [id \in GameIds |->
          LET n == CHOOSE k \in 1..series_games : games[k].game_id = id
          IN  PresetResult(games[n], ws[n])] : ws \in [1..series_games -> Teams] }

\* nba_classes.py:51-69: a game as its constructor leaves it
Constructed(s) ==
    /\ setup = s
    /\ players = initialize_players(s)
    /\ points = [n \in DOMAIN initialize_players(s) |-> 0]
    /\ score = [t \in {s.team1, s.team2} |-> 0]
    /\ quarters_completed = 0
    /\ events = 0
    /\ regulation = None
    /\ quarters_run = <<>>
    /\ quarter = 0
    /\ possessions = 0
    /\ play = NoPlay
    /\ winner = "none"

GameIdle ==
    /\ Constructed(CHOOSE s \in Setups : s.team1_id = NoId)
    /\ gpc = "idle"

\* the game ids of a schedule: uuid4 strings, pairwise distinct
ScheduleIds(prefix, k) == [n \in 1..k |-> prefix \o Digit(n)]

NewTasks(sched_of) ==
    [p \in Procs |->
        [t \in {<<sched_of[p][n], kind>> :
                    n \in 1..Len(sched_of[p]), kind \in OpKinds \cup {"game"}} |-> "new"]]

\* no game task has written game_results
NoWrites(states) ==
    [p \in Procs |-> [t \in {x \in DOMAIN states[p] : x[2] = "game"} |-> 0]]

NoSeed == -1

RandomIdle ==
    /\ random_seed = NoSeed
    /\ random_state = 0
    /\ drawn = <<>>
    /\ op_draws = <<>>

NoTeam == ""

PlayoffsIdle ==
    /\ games_db = <<>>
    /\ ppc = "idle"
    /\ standings = <<>>
    /\ round_index = 0
    /\ bracket = <<>>
    /\ schedule = <<>>
    /\ round_results = <<>>
    /\ previous_results = <<>>
    /\ errors = {}
    /\ champion = NoTeam
    /\ scheduled = <<>>

SchedIdle ==
    /\ call = [p \in Procs |-> "none"]
    /\ game_schedule = [p \in Procs |-> <<>>]
    /\ mpc = [p \in Procs |-> "idle"]
    /\ nsub = [p \in Procs |-> 0]
    /\ tstate = [p \in Procs |-> <<>>]
    /\ game_lock = [p \in Procs |-> NoHolder]
    /\ stop_event = [p \in Procs |-> {}]
    /\ stalls = {}
    /\ raises = {}
    /\ logged = [p \in Procs |-> {}]
    /\ writes = NoWrites(tstate)

SeriesIdle ==
    /\ wins = [t \in Teams |-> 0]
    /\ played_games = <<>>
    /\ must_win = [n \in 1..series_games |-> FALSE]
    /\ gi = 1
    /\ game_result = None
    /\ series_result = None
    /\ skipped = {}

InitSeries ==
    /\ game_results = [p \in Procs |-> EmptyTable]
    /\ playoff_results \in PlayoffTables
    /\ SeriesIdle
    /\ spc = "loop"
    /\ GameIdle
    /\ SchedIdle
    /\ PlayoffsIdle
    /\ RandomIdle

NextSeries ==
    \/ LoopPlay
    \/ LoopSkip
    \/ PoolJoin
    \/ Lookup
    \/ ApplyResult
    \/ Finish

SeriesSpec == InitSeries /\ [][NextSeries]_vars

InitGame ==
    /\ game_results = [p \in Procs |-> EmptyTable]
    /\ playoff_results = EmptyTable
    /\ SeriesIdle
    /\ spc = "idle"
    /\ \E s \in Setups : Constructed(s)
    /\ gpc = "start"
    /\ SchedIdle
    /\ PlayoffsIdle
    /\ RandomIdle

NextGame ==
    \/ RunStart
    \/ QuarterStart
    \/ EmptyPossession
    \/ Possession
    \/ QuarterEnd
    \/ TieTest
    \/ Final
    \/ Store
    \/ Save
    \/ SetEnded

GameSpec == InitGame /\ [][NextGame]_vars

\* The games whose run is followed to its end: the game of two unknown team
\* ids, whose default rosters collide and leave team1 without a player, and a
\* game in which both teams have players, Alpha at home against Bravo.
InitGameFair ==
    /\ InitGame
    /\ \/ setup.team1_id = NoId
       \/ setup.team1_id = "1" /\ DOMAIN setup.player_stats = {"a1", "b1"}

\* run is one thread that nothing blocks: it takes its next step
GameFairSpec == InitGameFair /\ [][NextGame]_vars /\ WF_vars(NextGame)

\* Two more constructions of a game: both team ids missing, and the away team
\* known while the home team's id is missing, so that the home team plays with
\* the default roster of several players (against a player who never scores).
RosterSetups ==
    { [team1 |-> "Alpha", team2 |-> "Bravo", team1_id |-> NoId, team2_id |-> NoId,
       player_stats |-> <<>>],
      [team1 |-> "Alpha", team2 |-> "Bravo", team1_id |-> NoId, team2_id |-> "2",
       player_stats |-> [n \in {"b1"} |-> Hopeless]] }

InitRosters ==
    /\ game_results = [p \in Procs |-> EmptyTable]
    /\ playoff_results = EmptyTable
    /\ SeriesIdle
    /\ spc = "idle"
    /\ \E s \in RosterSetups : Constructed(s)
    /\ gpc = "start"
    /\ SchedIdle
    /\ PlayoffsIdle
    /\ RandomIdle

RosterSpec == InitRosters /\ [][NextGame]_vars

InitV4 ==
    /\ game_results = [p \in Procs |-> EmptyTable]
    /\ playoff_results = EmptyTable
    /\ SeriesIdle
    /\ spc = "idle"
    /\ \E s \in V4Setups : V4Constructed(s)
    /\ gpc = "start"
    /\ SchedIdle
    /\ PlayoffsIdle
    /\ RandomIdle

NextV4 ==
    \/ V4RunStart
    \/ V4QuarterStart
    \/ V4EmptyPossession
    \/ V4Possession
    \/ V4QuarterEnd
    \/ V4TieTest
    \/ V4Final
    \/ V4Store
    \/ V4SetEnded
    \/ V4Save

\* the game is one thread that nothing blocks: it takes its next step
V4Spec == InitV4 /\ [][NextV4]_vars /\ WF_vars(NextV4)

\* what goes wrong in one call: nothing, or one venue task stalls, or one
\* game task raises while the game is played or while it is saved
Faults(p) ==
    {[stalls |-> {}, raises |-> {}]}
        \cup {[stalls |-> {t}, raises |-> {}] : t \in OpTasks(p)}
        \cup {[stalls |-> {}, raises |-> {<<t, point>>}] :
                    t \in GameTasks(p), point \in {"play", "save"}}

\* The main process calls simulate_parallel_games on a schedule of 0 to
\* MaxGames games, or simulate_game_with_stadium_ops on one playoff game; at
\* most one task stalls or raises.
InitSched ==
    /\ game_results = [p \in Procs |-> EmptyTable]
    /\ playoff_results = EmptyTable
    /\ SeriesIdle
    /\ spc = "idle"
    /\ GameIdle
    /\ PlayoffsIdle
    /\ RandomIdle
    /\ \E c \in {"parallel_games", "stadium_ops"} :
         \E k \in 0..MaxGames :
            /\ c = "stadium_ops" => k = 1
            /\ call = [p \in Procs |-> IF p = "main" THEN c ELSE "none"]
            /\ game_schedule = [p \in Procs |->
                                  IF p = "main" THEN ScheduleIds("g", k) ELSE <<>>]
    /\ mpc = [p \in Procs |-> IF p = "main" THEN "call" ELSE "idle"]
    /\ nsub = [p \in Procs |-> 0]
    /\ tstate = NewTasks(game_schedule)
    /\ game_lock = [p \in Procs |-> NoHolder]
    /\ stop_event = [p \in Procs |-> {}]
    /\ \E f \in Faults("main") :
         /\ stalls = f.stalls
         /\ raises = f.raises
    /\ logged = [p \in Procs |-> {}]
    /\ writes = NoWrites(tstate)

NextSched ==
    \/ PoolCreate
    \/ PoolSubmit
    \/ SubmitDone
    \/ TaskStart
    \/ OpFinish
    \/ GamePlayed
    \/ PlayRaise
    \/ SaveRaise
    \/ GameAcquire
    \/ GameWrite
    \/ GameRelease
    \/ GameSave
    \/ GameEnd
    \/ ParallelJoin
    \/ ParallelSignal
    \/ StadiumJoin
    \/ PoolExit

\* Python's threads are scheduled by the operating system: a thread that can
\* take a step eventually takes one.
SchedSpec == InitSched /\ [][NextSched]_vars /\ WF_vars(NextSched)

\* The calls in which every venue task stops at its time limit; a game task
\* may still raise.
InitPoolFair == InitSched /\ stalls = {}

PoolFairSpec == InitPoolFair /\ [][NextSched]_vars /\ WF_vars(NextSched)

\* The main process calls simulate_conferences on two schedules of 0 to
\* ConfGames games; no venue task stalls.
InitConf ==
    /\ game_results = [p \in Procs |-> EmptyTable]
    /\ playoff_results = EmptyTable
    /\ SeriesIdle
    /\ spc = "idle"
    /\ GameIdle
    /\ PlayoffsIdle
    /\ RandomIdle
    /\ call = [p \in Procs |-> IF p = "main" THEN "conferences" ELSE "none"]
    /\ \E ke \in 0..ConfGames : \E kw \in 0..ConfGames :
         game_schedule = [p \in Procs |->
                            CASE p = "east" -> ScheduleIds("e", ke)
                              [] p = "west" -> ScheduleIds("w", kw)
                              [] OTHER -> <<>>]
    /\ mpc = [p \in Procs |-> IF p = "main" THEN "submit_east" ELSE "idle"]
    /\ nsub = [p \in Procs |-> 0]
    /\ tstate = NewTasks(game_schedule)
    /\ game_lock = [p \in Procs |-> NoHolder]
    /\ stop_event = [p \in Procs |-> {}]
    /\ stalls = {}
    /\ raises = {}
    /\ logged = [p \in Procs |-> {}]
    /\ writes = NoWrites(tstate)

NextConf ==
    \/ SubmitEast
    \/ SubmitWest
    \/ WaitEast
    \/ WaitWest
    \/ ConferencesExit
    \/ PoolCreate
    \/ PoolSubmit
    \/ SubmitDone
    \/ TaskStart
    \/ OpFinish
    \/ GamePlayed
    \/ GameAcquire
    \/ GameWrite
    \/ GameRelease
    \/ GameSave
    \/ GameEnd
    \/ ParallelJoin
    \/ ParallelSignal
    \/ PoolExit

ConfSpec == InitConf /\ [][NextConf]_vars

\* most rows of the games table
MaxSeasonGames == 2

\* the teams whose games the table may hold: the first, eighth and ninth team
\* of the East and the ninth of the West
FixtureTeams ==
    {"Boston Celtics", "Chicago Bulls", "Toronto Raptors", "Sacramento Kings"}

\* a row of the games table: SELECT team1, team2, winner FROM games
Fixtures ==
    {row \in [team1 : FixtureTeams, team2 : FixtureTeams, winner : FixtureTeams] :
        row.team1 # row.team2 /\ row.winner \in {row.team1, row.team2}}

Seasons == UNION {[1..n -> Fixtures] : n \in 0..MaxSeasonGames}

\* regular_season.py:112: game_id = str(uuid.uuid4()) for each game of the
\* regular season, k fresh identifiers
RegularSeasonIds(k) == [n \in 1..k |-> "uuid-" \o Digit(n)]

PlayoffsCalled(rows) ==
    /\ games_db = rows
    /\ ppc = "standings"
    /\ standings = <<>>
    /\ round_index = 0
    /\ bracket = <<>>
    /\ schedule = <<>>
    /\ round_results = <<>>
    /\ previous_results = <<>>
    /\ errors = {}
    /\ champion = NoTeam
    /\ scheduled = RegularSeasonIds(Len(rows))

NotPlayoffsIdle ==
    /\ game_results = [p \in Procs |-> EmptyTable]
    /\ playoff_results = EmptyTable
    /\ SeriesIdle
    /\ spc = "idle"
    /\ GameIdle
    /\ SchedIdle
    /\ RandomIdle

\* create_playoff_bracket and the schedule of the first round, from every
\* games table of at most MaxSeasonGames rows
InitBracket ==
    /\ NotPlayoffsIdle
    /\ \E rows \in Seasons : PlayoffsCalled(rows)

NextBracket ==
    \/ GetStandings
    \/ CreateBracket
    \/ GenerateSchedule

BracketSpec == InitBracket /\ [][NextBracket]_vars

\* the teams named in the rows of a games table that was not written by this
\* season alone: two teams of NBA_TEAMS and a team that is not in it
RowTeams == {"Boston Celtics", "Sacramento Kings", "Seattle SuperSonics"}

\* rows (team1, team2, winner) of two teams, the winner being one of them or not
Rows ==
    {row \in [team1 : RowTeams, team2 : RowTeams, winner : RowTeams] :
        row.team1 # row.team2}

Tables == UNION {[1..n -> Rows] : n \in 0..MaxSeasonGames}

\* get_team_standings and create_playoff_bracket on every such table
InitStandings ==
    /\ NotPlayoffsIdle
    /\ \E rows \in Tables : PlayoffsCalled(rows)

NextStandings ==
    \/ GetStandings
    \/ CreateBracket

StandingsSpec == InitStandings /\ [][NextStandings]_vars

\* the games table of simulate_playoffs: empty, or one game the ninth team of
\* the East won against the first
PlayoffSeasons ==
    {<<>>,
     <<[team1 |-> "Boston Celtics", team2 |-> "Toronto Raptors",
        winner |-> "Toronto Raptors"]>>}

\* simulate_playoffs with the simulate_playoff_series of the program
InitPlayoffs ==
    /\ NotPlayoffsIdle
    /\ \E rows \in PlayoffSeasons : PlayoffsCalled(rows)

NextPlayoffs ==
    \/ GetStandings
    \/ CreateBracket
    \/ GenerateSchedule
    \/ SeriesResult
    \/ RoundSimulated
    \/ AdvanceFirstRound
    \/ AdvanceSemifinals
    \/ AdvanceConferenceFinals
    \/ Champion

PlayoffSpec == InitPlayoffs /\ [][NextPlayoffs]_vars

\* simulate_playoffs with simulate_playoff_series replaced by a double that
\* may report the same winner for two series
NextStubbedPlayoffs ==
    \/ GetStandings
    \/ CreateBracket
    \/ GenerateSchedule
    \/ StubbedSeriesResult
    \/ RoundSimulated
    \/ AdvanceFirstRound
    \/ AdvanceSemifinals
    \/ AdvanceConferenceFinals
    \/ Champion

StubbedPlayoffSpec == InitPlayoffs /\ [][NextStubbedPlayoffs]_vars

\* A game is played in a process seeded with any state of the generator,
\* beside any of the venue tasks.
InitRandom ==
    /\ game_results = [p \in Procs |-> EmptyTable]
    /\ playoff_results = EmptyTable
    /\ SeriesIdle
    /\ spc = "idle"
    /\ GameIdle
    /\ SchedIdle
    /\ PlayoffsIdle
    /\ random_seed \in RandomStates
    /\ random_state = random_seed
    /\ drawn = <<>>
    /\ \E running \in SUBSET OpKinds : op_draws = [k \in running |-> 0]

NextRandomSource ==
    \/ GameDraw
    \/ OpDraw

RandomSpec == InitRandom /\ [][NextRandomSource]_vars

(***************************************************************************)
(* Claims about the series loop, checked under SeriesSpec                  *)
(***************************************************************************)
SeriesReturned == spc = "done"

\* C1: every series result returned by simulate_single_series carries between
\* 4 and 7 game results and its declared winner has exactly 4 wins.
C1_SeriesLengthAndWinner ==
    SeriesReturned =>
        /\ Len(series_result.games) \in 4..7
        /\ wins[series_result.winner] = 4

\* C2: once either win counter has reached 4 no further game of the series is
\* simulated: the loop only skips, and the counters, the list of played games
\* and the table the games write no longer change.
C2_NoGameAfterDecided ==
    [][ MaxWins(wins) >= 4 =>
          /\ wins' = wins
          /\ played_games' = played_games
          /\ game_results' = game_results
          /\ spc' \in {"loop", "done"} ]_vars

C2_Witness ==
    /\ SeriesReturned
    /\ MaxWins(wins) = 4
    /\ skipped = {games[n].game_id : n \in 5..series_games}

\* the per-game outcome is preset so that X wins each of the first four games
PresetSweep(X) ==
    \A n \in 1..4 :
        /\ games[n].game_id \in DOMAIN playoff_results
        /\ playoff_results[games[n].game_id].winner = X

\* C3: when the same team X wins each of the first four games, exactly four
\* games are simulated, never a fifth, and X is returned as winner, 4-0.
C3_SweepEndsAfterFour ==
    \A X \in Teams :
        PresetSweep(X) =>
            /\ DOMAIN game_results["main"] \subseteq
                   {games[n].game_id : n \in 1..4}
            /\ Len(played_games) <= 4
            /\ SeriesReturned =>
                   /\ DOMAIN game_results["main"] = {games[n].game_id : n \in 1..4}
                   /\ series_result.winner = X
                   /\ series_result.score = IF X = team1 THEN "4-0" ELSE "0-4"
                   /\ Len(series_result.games) = 4
                   /\ \A n \in 1..4 : series_result.games[n].winner = X

C3_Witness == SeriesReturned /\ PresetSweep(team2)

\* C4: the two win counts sum to the number of game results carried: each game
\* that produced a result incremented exactly one counter exactly once.
C4_WinsSumToGames ==
    /\ wins[team1] + wins[team2] = Len(played_games)
    /\ \A t \in Teams :
           wins[t] = Cardinality({n \in 1..Len(played_games) :
                                      played_games[n].winner = t})
    /\ SeriesReturned =>
           /\ series_result.games = played_games
           /\ series_result.score = ScoreStr(wins[team1], wins[team2])

C4_Witness ==
    /\ SeriesReturned
    /\ Len(series_result.games) = 7
    /\ wins[team1] = 3
    /\ wins[team2] = 4

(***************************************************************************)
(* Claims about NBA_Game.run, checked under GameSpec                       *)
(***************************************************************************)
GameStored == game_id \in DOMAIN game_results["main"]

StoredResult == game_results["main"][game_id]

\* C5: no stored game result has equal scores for the two teams.
C5_NoStoredTie ==
    GameStored => StoredResult.score1 # StoredResult.score2

\* a stored tie of a game in which both teams have players and have scored
C5_TieWithFullRosters ==
    /\ GameStored
    /\ StoredResult.score1 = StoredResult.score2
    /\ StoredResult.score1 > 0
    /\ \A t \in {setup.team1, setup.team2} : TeamPlayers(t) # {}
    /\ quarters_run = <<1, 2, 3, 4, 5>>

\* C6: quarters 1 to 4 are simulated in order exactly once each, and an
\* overtime period is simulated if and only if the two scores are equal at the
\* end of quarter 4.
C6_QuartersThenOvertimeIffTied ==
    /\ \E n \in 0..5 : quarters_run = SubSeq(<<1, 2, 3, 4, 5>>, 1, n)
    /\ Len(quarters_run) = 5 =>
           /\ regulation # None
           /\ regulation[setup.team1] = regulation[setup.team2]
    /\ gpc \in {"final", "store", "save", "signal", "done"} =>
           /\ Len(quarters_run) >= 4
           /\ regulation[setup.team1] = regulation[setup.team2]
                  => Len(quarters_run) = 5

C6_Witness ==
    /\ gpc = "done"
    /\ quarters_run = <<1, 2, 3, 4, 5>>
    /\ regulation[setup.team1] = 3
    /\ regulation[setup.team2] = 3

\* C7: the recorded winner of a completed game is one of the two participants
\* and no participant has a final score above the winner's.
C7_WinnerHasMaxScore ==
    GameStored =>
        LET r == StoredResult
            winner_score == IF r.winner = r.team1 THEN r.score1 ELSE r.score2
        IN  /\ r.winner \in {r.team1, r.team2}
            /\ winner_score >= r.score1
            /\ winner_score >= r.score2

C7_Witness ==
    /\ gpc = "done"
    /\ StoredResult.winner = StoredResult.team2
    /\ StoredResult.score2 > StoredResult.score1

(***************************************************************************)
(* Claims about the pools (SchedSpec) and the conferences (ConfSpec)       *)
(***************************************************************************)
ParallelReturned ==
    call["main"] = "parallel_games" /\ mpc["main"] = "returned"

ScheduledIds(p) == {game_schedule[p][n] : n \in 1..Len(game_schedule[p])}

\* C8: when simulate_parallel_games has returned from a schedule of K games
\* with pairwise distinct ids and no task has failed, the result table holds
\* exactly K entries, one under each id of the schedule and each written by
\* the game of that id.
C8_OneEntryPerGame ==
    (ParallelReturned /\ raises = {}) =>
        /\ DOMAIN game_results["main"] = ScheduledIds("main")
        /\ Cardinality(DOMAIN game_results["main"]) = Len(game_schedule["main"])
        /\ \A g \in ScheduledIds("main") :
              game_results["main"][g] \in ScheduledOutcomes(g)

\* simulate_parallel_games has returned from a schedule of two games or more
C8_Witness ==
    /\ ParallelReturned
    /\ raises = {}
    /\ Len(game_schedule["main"]) >= 2
    /\ Cardinality(DOMAIN game_results["main"]) >= 2

\* C9: once simulate_conferences has returned, the game_results of the
\* calling process holds an entry for every game of both schedules.
C9_ParentHoldsBothBatches ==
    (call["main"] = "conferences" /\ mpc["main"] = "returned") =>
        \A p \in Children : ScheduledIds(p) \subseteq DOMAIN game_results["main"]

\* simulate_conferences has returned, each child has stored its games in its
\* own table, and the table of the parent is empty
C9_ResultsLeftInChildren ==
    /\ call["main"] = "conferences"
    /\ mpc["main"] = "returned"
    /\ \A p \in Children :
          /\ ScheduledIds(p) # {}
          /\ DOMAIN game_results[p] = ScheduledIds(p)
    /\ game_results["main"] = EmptyTable

\* every task has been submitted and every game task has ended
GameTasksDone(p) ==
    /\ NumTasks(p) > 0
    /\ nsub[p] = NumTasks(p)
    /\ \A t \in GameTasks(p) : tstate[p][t] = "done"

\* C10: once the game tasks have ended, simulate_parallel_games and
\* simulate_game_with_stadium_ops return, whether or not a venue task stalls.
C10_ReturnsOnceGamesEnded ==
    GameTasksDone("main") ~> (mpc["main"] = "returned")

\* every game task of simulate_parallel_games has ended, a stalled venue task
\* is still running, and the main thread waits for it with no step left to
\* any thread
C10_WaitingOnStalledTask ==
    /\ call["main"] = "parallel_games"
    /\ GameTasksDone("main")
    /\ mpc["main"] = "wait"
    /\ \E t \in stalls : tstate["main"][t] = "running"
    /\ ~ ENABLED NextSched

\* the ids a schedule of the main process can hold
MainIds == {ScheduleIds("g", MaxGames)[n] : n \in 1..MaxGames}

\* the game task of game g in the main process has ended
GameTaskEnded(g) ==
    /\ <<g, "game">> \in Tasks("main")
    /\ tstate["main"][<<g, "game">>] = "done"

\* C11: once the task of a game has ended, the stop_event of each venue task
\* of that game is set, also when the venue task is still running.
C11_OpsSignalledOnceGameEnded ==
    \A g \in MainIds :
        GameTaskEnded(g) ~> (\A k \in OpKinds : <<g, k>> \in stop_event["main"])

\* simulate_game_with_stadium_ops has returned from a game whose task ended,
\* and no stop_event was ever set
C11_ReturnedWithoutSignal ==
    /\ call["main"] = "stadium_ops"
    /\ mpc["main"] = "returned"
    /\ GameTaskEnded("g1")
    /\ stop_event["main"] = {}

\* C12: when simulate_parallel_games has returned and one game task raised,
\* the exception was logged, the failed game has no entry in game_results,
\* and every other game of the schedule has the entry its own task wrote.
C12_FailureIsolated ==
    (ParallelReturned /\ raises # {}) =>
        \A t \in GameTasks("main") :
            IF t \in Failed("main")
            THEN /\ t \in logged["main"]
                 /\ t[1] \notin DOMAIN game_results["main"]
            ELSE /\ t[1] \in DOMAIN game_results["main"]
                 /\ game_results["main"][t[1]] \in ScheduledOutcomes(t[1])

\* simulate_parallel_games has returned from two games, the task of one
\* raised in save_game_to_db and was logged, and game_results holds the
\* entries of both
C12_FailedGameHasEntry ==
    /\ ParallelReturned
    /\ Len(game_schedule["main"]) = 2
    /\ \E t \in Failed("main") : <<t, "save">> \in raises /\ t \in logged["main"]
    /\ DOMAIN game_results["main"] = ScheduledIds("main")

\* C13: when save_game_to_db raises for a game, the task of the game still
\* ends normally (it never ends with the exception) and the call that runs
\* the game, simulate_game_with_stadium_ops for a playoff series, does not
\* raise.
C13_SaveFailureContained ==
    \A r \in raises :
        r[2] = "save" =>
            /\ tstate["main"][r[1]] # "raised"
            /\ mpc["main"] # "raised"

\* save_game_to_db raised for the playoff game: its result is stored, its
\* task ended with the exception, and simulate_game_with_stadium_ops let the
\* exception out to simulate_single_series
C13_SeriesGameRaised ==
    /\ call["main"] = "stadium_ops"
    /\ raises = {<<(<<"g1", "game">>), "save">>}
    /\ "g1" \in DOMAIN game_results["main"]
    /\ tstate["main"][<<"g1", "game">>] = "raised"
    /\ mpc["main"] = "raised"

(***************************************************************************)
(* Claims about the playoffs (BracketSpec, PlayoffSpec, StubbedPlayoffSpec) *)
(***************************************************************************)
\* the teams placed in the round's bracket
BracketTeams ==
    UNION {UNION {{m[1], m[2]} : m \in Range(bracket[c].matchups)} : c \in DOMAIN bracket}

\* C14: simulate_playoffs enters a later round only when no count of winners
\* was found wrong, and every team it places in that round won a series of
\* the round before.
C14_OnlyWinnersAdvance ==
    round_index >= 1 =>
        /\ errors = {}
        /\ BracketTeams \subseteq WinnersOf(previous_results)

\* a round reported a wrong number of Eastern winners, and the series of the
\* next round are being simulated with a team that won no series
C14_FabricatedTeamPlays ==
    /\ round_index = 1
    /\ "Incorrect number of Eastern Conference winners" \in errors
    /\ BracketTeams \ WinnersOf(previous_results) # {}
    /\ ppc = "simulate"
    /\ round_results # <<>>

\* the number of series of round r
SeriesPerRound(r) == <<8, 4, 2, 1>>[r + 1]

\* C15: when the series of a round have been simulated, their winners are
\* pairwise distinct and as many as the series of the round: 8, 4, 2, 1.
C15_DistinctWinnersPerRound ==
    ppc = "advance" =>
        /\ Len(round_results) = SeriesPerRound(round_index)
        /\ Cardinality(WinnersOf(round_results)) = Len(round_results)

\* the semifinals have been simulated, one of them won by its second team
C15_Witness ==
    /\ ppc = "advance"
    /\ round_index = 1
    /\ Len(round_results) = 4
    /\ \E n \in DOMAIN round_results :
          \E m \in Range(bracket[1].matchups) : round_results[n].winner = m[2]

\* the seeds of a conference, read from the standings
Seeds(conf) == TopEight(ConferenceTeams(standings, conf))

\* the winner of the first-round series between seeds i and j of a conference
FirstRoundWinner(conference, conf, i, j) ==
    LET name == SeriesDesc(conference, 0, Seeds(conf)[i].name, Seeds(conf)[j].name)
        n == CHOOSE k \in DOMAIN previous_results : previous_results[k].series = name
    IN  previous_results[n].winner

\* the pairs of teams that meet in the c-th conference of the bracket
Pairings(c) == {{m[1], m[2]} : m \in Range(bracket[c].matchups)}

\* C16: in the semifinals of each conference the winner of seed 1 against
\* seed 8 meets the winner of seed 4 against seed 5, and the winner of seed 2
\* against seed 7 meets the winner of seed 3 against seed 6.
C16_SemifinalsPairAdjacentSlots ==
    round_index = 1 =>
        /\ Pairings(1) =
             {{FirstRoundWinner("Eastern Conference", "East", 1, 8),
               FirstRoundWinner("Eastern Conference", "East", 4, 5)},
              {FirstRoundWinner("Eastern Conference", "East", 2, 7),
               FirstRoundWinner("Eastern Conference", "East", 3, 6)}}
        /\ Pairings(2) =
             {{FirstRoundWinner("Western Conference", "West", 1, 8),
               FirstRoundWinner("Western Conference", "West", 4, 5)},
              {FirstRoundWinner("Western Conference", "West", 2, 7),
               FirstRoundWinner("Western Conference", "West", 3, 6)}}

\* the Eastern semifinals pair the winner of seed 1 against seed 8 with the
\* winner of seed 2 against seed 7
C16_OuterSlotsPaired ==
    /\ round_index = 1
    /\ ppc = "simulate"
    /\ {FirstRoundWinner("Eastern Conference", "East", 1, 8),
        FirstRoundWinner("Eastern Conference", "East", 2, 7)} \in Pairings(1)

\* create_playoff_bracket has returned the bracket of the first round
BracketCreated == round_index = 0 /\ ppc \in {"schedule", "simulate"}

\* C17: each conference of the first-round bracket holds exactly the
\* matchups seed 1 - seed 8, seed 2 - seed 7, seed 3 - seed 6 and seed 4 -
\* seed 5 with the better seed first, each seeded team in exactly one.
C17_FirstRoundMatchups ==
    BracketCreated =>
        \A c \in {1, 2} :
            LET seed == Seeds(<<"East", "West">>[c])
                ms == bracket[c].matchups
            IN  /\ Len(ms) = 4
                /\ Range(ms) = {<<seed[i].name, seed[9 - i].name>> : i \in 1..4}
                /\ \A i \in 1..8 :
                      Cardinality({n \in DOMAIN ms :
                          seed[i].name \in {ms[n][1], ms[n][2]}}) = 1

\* the bracket of a season in which the ninth team of the East won a game and
\* plays the first round
C17_Witness ==
    /\ BracketCreated
    /\ games_db # <<>>
    /\ \E m \in Range(bracket[1].matchups) : m[1] = "Toronto Raptors"

\* the seeds of the c-th conference, read back from the bracket
BracketSeeds(c) ==
    LET ms == bracket[c].matchups
    IN  <<ms[1][1], ms[4][1], ms[3][1], ms[2][1], ms[2][2], ms[3][2], ms[4][2], ms[1][2]>>

\* the record of a team in the standings, and its place there
Record(name) == standings[CHOOSE n \in DOMAIN standings : standings[n].name = name]

Place(name) == CHOOSE n \in DOMAIN standings : standings[n].name = name

\* C18: the seeds of a conference are in non-increasing order of win
\* percentage, no team left out has a higher percentage than a seeded one,
\* and teams of equal percentage are in standings order.
C18_SeededByWinPercentage ==
    BracketCreated =>
        \A c \in {1, 2} :
            LET conf == <<"East", "West">>[c]
                seeds == BracketSeeds(c)
                out == ConferenceNames(standings, conf) \ Range(seeds)
            IN  /\ Range(seeds) \subseteq ConferenceNames(standings, conf)
                /\ Cardinality(Range(seeds)) = 8
                /\ \A i \in 1..7 :
                      /\ ~ PctGreater(Record(seeds[i + 1]), Record(seeds[i]))
                      /\ PctEqual(Record(seeds[i]), Record(seeds[i + 1]))
                            => Place(seeds[i]) < Place(seeds[i + 1])
                /\ \A x \in out : \A i \in 1..8 :
                      /\ ~ PctGreater(Record(x), Record(seeds[i]))
                      /\ PctEqual(Record(x), Record(seeds[i]))
                            => Place(seeds[i]) < Place(x)

\* two teams that won a game each are seeded first and second in standings
\* order, a team that lost its only game is seeded third ahead of the teams
\* without a game, and a team is left out
C18_Witness ==
    /\ BracketCreated
    /\ BracketSeeds(1)[1] = "Chicago Bulls"
    /\ BracketSeeds(1)[2] = "Toronto Raptors"
    /\ BracketSeeds(1)[3] = "Boston Celtics"
    /\ Record("Boston Celtics").losses = 1
    /\ PctEqual(Record("Boston Celtics"), Record("Miami Heat"))
    /\ "Atlanta Hawks" \notin Range(BracketSeeds(1))

\* the games the schedule holds for a series
GamesOfSeries(name) == {n \in DOMAIN schedule : schedule[n].series = name}

\* C19: for every matchup of the round the schedule holds 7 games numbered 1
\* to 7; the first-listed team hosts games 1, 2, 5 and 7, the other team
\* games 3, 4 and 6, and the arena of each game is the arena of its host.
C19_HomeCourtPattern ==
    ppc \in {"simulate", "advance"} =>
        \A c \in DOMAIN bracket : \A i \in DOMAIN bracket[c].matchups :
            LET m == bracket[c].matchups[i]
                gs == GamesOfSeries(SeriesDesc(bracket[c].conference, round_index, m[1], m[2]))
            IN  /\ Cardinality(gs) = 7
                /\ {schedule[n].game_num : n \in gs} = 1..7
                /\ \A n \in gs :
                      /\ schedule[n].home =
                            (IF schedule[n].game_num \in {1, 2, 5, 7} THEN m[1] ELSE m[2])
                      /\ schedule[n].away =
                            (IF schedule[n].game_num \in {1, 2, 5, 7} THEN m[2] ELSE m[1])
                      /\ schedule[n].arena = Arena(schedule[n].home)

\* the schedule of the NBA Finals has been generated
C19_Witness ==
    /\ ppc = "simulate"
    /\ round_index = 3
    /\ Len(schedule) = 7

(***************************************************************************)
(* Claims about the random source (RandomSpec)                             *)
(***************************************************************************)
RECURSIVE AloneDraws(_, _)
\* the values a game draws from a generator no other thread draws from
AloneDraws(state, n) ==
    IF n = 0 THEN <<>> ELSE <<state>> \o AloneDraws(NextRandom(state), n - 1)

GamePlayedOut == Len(drawn) = GamePossessions

\* C20: for a fixed seed the final score and the winner of a game are those
\* of the game played without venue tasks, whatever the venue tasks of the
\* process have drawn and when.
C20_OutcomeIndependentOfVenueTasks ==
    GamePlayedOut =>
        /\ ScoreOf(drawn) = ScoreOf(AloneDraws(random_seed, GamePossessions))
        /\ WinnerOf(drawn) = WinnerOf(AloneDraws(random_seed, GamePossessions))

\* a game whose winner differs from the winner of the same seed without venue
\* tasks, a venue task having drawn between two possessions
C20_VenueDrawChangedWinner ==
    /\ GamePlayedOut
    /\ \E k \in DOMAIN op_draws : op_draws[k] > 0
    /\ WinnerOf(drawn) # WinnerOf(AloneDraws(random_seed, GamePossessions))

(***************************************************************************)
(* Claims about the join barrier and the critical section (SchedSpec)      *)
(***************************************************************************)
\* C21: when simulate_parallel_games has returned, every game task it
\* submitted has finished, with a result or with an exception that the main
\* thread has logged; none is still pending or running.
C21_ReturnsAfterEveryGameTask ==
    ParallelReturned =>
        /\ nsub["main"] = NumTasks("main")
        /\ \A t \in GameTasks("main") :
              /\ tstate["main"][t] \in {"done", "raised"}
              /\ tstate["main"][t] = "raised" => t \in logged["main"]

\* simulate_parallel_games has returned from two games, one of which raised
\* while it was played and was logged, the other having ended normally
C21_Witness ==
    /\ ParallelReturned
    /\ \E t \in GameTasks("main") : \E u \in GameTasks("main") :
          /\ <<t, "play">> \in raises
          /\ tstate["main"][t] = "raised"
          /\ t \in logged["main"]
          /\ tstate["main"][u] = "done"

\* the game tasks of process p that are inside "with game_lock:"
InCriticalSection(p) == {t \in GameTasks(p) : tstate[p][t] \in {"locked", "written"}}

\* the game tasks of process p that have left the write behind
PastWrite(p) ==
    {t \in GameTasks(p) : tstate[p][t] \in {"written", "released", "saved", "done"}}

\* C22: at most one game task at a time is inside the critical section of
\* game_lock, where the result table is written, it holds the lock there, and
\* each game task writes the table once: never twice, and once when it has
\* passed the write.
C22_WriteUnderLockOnce ==
    \A p \in Procs :
        /\ Cardinality(InCriticalSection(p)) <= 1
        /\ \A t \in InCriticalSection(p) : game_lock[p] = t
        /\ \A t \in GameTasks(p) :
              /\ writes[p][t] <= 1
              /\ t \in PastWrite(p) => writes[p][t] = 1
              /\ tstate[p][t] \in {"new", "pending", "running", "played", "locked"}
                    => writes[p][t] = 0

\* a game task has written the table and still holds game_lock while another
\* has played its game and waits for the lock
C22_Witness ==
    \E t \in GameTasks("main") : \E u \in GameTasks("main") :
        /\ tstate["main"][t] = "written"
        /\ writes["main"][t] = 1
        /\ tstate["main"][u] = "played"

(***************************************************************************)
(* Claims about the possessions of a game (GameSpec, GameFairSpec)         *)
(***************************************************************************)
\* one iteration of the possession loop is made
PossessionStep == gpc = "possession" /\ possessions' = possessions - 1

\* a team of the game has no player
EmptyRoster == \E t \in {setup.team1, setup.team2} : TeamPlayers(t) = {}

C24_EmptyRosterPossessionNoOp ==
    /\ [][ (PossessionStep /\ EmptyRoster) =>
              /\ score' = score
              /\ points' = points
              /\ events' = events
              /\ players' = players
              /\ gpc' = gpc
         ]_vars
    /\ (EmptyRoster /\ gpc = "start") ~> (gpc = "done" /\ GameStored)

\* a game of no-op possessions only has been played to its end, overtime
\* included, and is stored 0-0
C24_Witness ==
    /\ EmptyRoster
    /\ gpc = "done"
    /\ quarters_run = <<1, 2, 3, 4, 5>>
    /\ play.type = "none"
    /\ play.offense # "none"
    /\ StoredResult.score1 = 0
    /\ StoredResult.score2 = 0

\* C25: both scores are non-negative integers at every moment of a game and
\* no step of the game lowers one of them.
C25_ScoresNeverDecrease ==
    /\ [](\A t \in DOMAIN score : score[t] \in Nat)
    /\ [][\A t \in DOMAIN score : score'[t] >= score[t]]_vars

\* both teams have scored, the home team in more than one possession
C25_Witness ==
    /\ gpc = "done"
    /\ score[setup.team1] = 5
    /\ score[setup.team2] = 3

\* the game of Alpha, whose players make every shot, against Bravo, whose
\* players have every percentage at 0
AlphaBravoGame ==
    /\ DOMAIN setup.player_stats = {"a1", "b1"}
    /\ setup.player_stats["a1"] = Perfect
    /\ setup.player_stats["b1"] = Hopeless

\* one of the quarters 1 to 4 has just ended
QuarterJustEnded == quarters_completed \in 1..4 /\ gpc \in {"quarter", "tie_test"}

\* C26: in the game of Alpha against Bravo, whichever is the home team, Alpha
\* leads at the end of each of the quarters 1 to 4, no overtime is played and
\* Alpha is the winner.
C26_AlphaLeadsEveryQuarter ==
    AlphaBravoGame =>
        /\ QuarterJustEnded => score["Alpha"] > score["Bravo"]
        /\ 5 \notin {quarters_run[n] : n \in DOMAIN quarters_run}
        /\ GameStored => StoredResult.winner = "Alpha"

\* Bravo, at home, has made a shot while Alpha has not scored in four
\* quarters, and is stored as the winner
C26_BravoWins ==
    /\ AlphaBravoGame
    /\ setup.team1 = "Bravo"
    /\ GameStored
    /\ StoredResult.winner = "Bravo"
    /\ score["Bravo"] > score["Alpha"]
    /\ quarters_run = <<1, 2, 3, 4>>

(***************************************************************************)
(* Claims about the stored results and their keys                          *)
(***************************************************************************)
\* the entries of table t are in table u as they were
Kept(t, u) == \A id \in DOMAIN t : id \in DOMAIN u /\ u[id] = t[id]

C28_GameIdsDistinct ==
    Cardinality({scheduled[n] : n \in DOMAIN scheduled}) = Len(scheduled)

\* the playoffs are over after a regular season of one game: the 105 games
\* of the four rounds have been scheduled
C28_Witness ==
    /\ ppc = "done"
    /\ Len(games_db) = 1
    /\ Len(scheduled) = 1 + 7 * 15
    /\ scheduled[Len(scheduled)] = "F-G7"

(***************************************************************************)
(* Claims about the standings (StandingsSpec)                              *)
(***************************************************************************)
\* get_team_standings has returned
StandingsComputed == ppc \in {"bracket", "schedule"}

\* the rows of the games table whose two teams are known and whose winner is
\* one of them
CountedGames ==
    {n \in DOMAIN games_db :
        /\ games_db[n].team1 \in TeamNames
        /\ games_db[n].team2 \in TeamNames
        /\ games_db[n].winner \in {games_db[n].team1, games_db[n].team2}}

RECURSIVE Total(_, _)
\* the sum of a field over the records of the standings
Total(st, field) ==
    IF st = <<>> THEN 0 ELSE Head(st)[field] + Total(Tail(st), field)

\* C29: in the standings each team's wins are the counted games it won and its
\* losses the counted games it played and the other team won, so that all
\* wins and all losses each sum to the number of counted games and a team's
\* wins plus losses is the number of counted games it played.
C29_RecordsFromWinners ==
    StandingsComputed =>
        /\ Total(standings, "wins") = Cardinality(CountedGames)
        /\ Total(standings, "losses") = Cardinality(CountedGames)
        /\ \A k \in DOMAIN standings :
              LET team == standings[k].name
                  played == {n \in CountedGames :
                                team \in {games_db[n].team1, games_db[n].team2}}
              IN  /\ standings[k].wins =
                        Cardinality({n \in played : games_db[n].winner = team})
                  /\ standings[k].losses =
                        Cardinality({n \in played : games_db[n].winner # team})
                  /\ standings[k].wins + standings[k].losses = Cardinality(played)

\* Boston and Sacramento have split two games
C29_Witness ==
    /\ StandingsComputed
    /\ Cardinality(CountedGames) = 2
    /\ \E k \in DOMAIN standings :
          /\ standings[k].name = "Boston Celtics"
          /\ standings[k].wins = 1
          /\ standings[k].losses = 1
    /\ \E k \in DOMAIN standings :
          /\ standings[k].name = "Sacramento Kings"
          /\ standings[k].wins = 1
          /\ standings[k].losses = 1

\* the rows of the games table that count, in their order
CountedRows == [k \in 1..Cardinality(CountedGames) |-> games_db[Ascending(CountedGames)[k]]]

\* C30: from any games table, an empty one included, the standings hold every
\* team of NBA_TEAMS once, a team without a counted game is 0-0 with win
\* percentage 0 and is seeded behind every team of its conference that has
\* won a game, the rows that name an unknown team or a winner that is neither
\* team change nothing, and the bracket is made: four matchups of eight
\* different teams in each conference.
C30_StandingsFromAnyTable ==
    /\ StandingsComputed =>
          /\ [k \in DOMAIN standings |-> standings[k].name] = NBA_TEAMS
          /\ standings = get_team_standings(CountedRows)
          /\ \A k \in DOMAIN standings :
                (\A n \in CountedGames :
                    standings[k].name \notin {games_db[n].team1, games_db[n].team2})
                => /\ standings[k].wins = 0
                   /\ standings[k].losses = 0
                   /\ WinPct(standings[k]) = <<0, 1>>
    /\ ppc = "schedule" =>
          \A c \in {1, 2} :
             /\ Len(bracket[c].matchups) = 4
             /\ Cardinality(Range(BracketSeeds(c))) = 8
             /\ \A i \in 1..8 : \A j \in 1..8 :
                   (Record(BracketSeeds(c)[i]).wins = 0 /\ Record(BracketSeeds(c)[j]).wins > 0)
                   => j < i

\* the bracket is made from a table of one row that counts, which Sacramento
\* won against Boston, and one row that names an unknown team
C30_Witness ==
    /\ ppc = "schedule"
    /\ Cardinality(CountedGames) = 1
    /\ \E n \in DOMAIN games_db : games_db[n].team2 = "Seattle SuperSonics"
    /\ BracketSeeds(2)[1] = "Sacramento Kings"
    /\ Record("Boston Celtics").losses = 1
    /\ Record("Boston Celtics").wins = 0

(***************************************************************************)
(* Claims about the result a playoff game hands back to its series         *)
(***************************************************************************)
\* C31: when the game task of a playoff game has completed normally,
\* simulate_game_with_stadium_ops returns a result that is not None and that
\* carries the winner of the result the game stored under its game id, so the
\* series has a winner to count for every game it simulates.
C31_StoredResultReturned ==
    spc = "apply" =>
        /\ games[gi].game_id \in DOMAIN game_results["main"]
        /\ game_result # None
        /\ game_result.winner = game_results["main"][games[gi].game_id].winner

\* the game stored its result, playoff_results is as the program leaves it,
\* and simulate_game_with_stadium_ops returned None
C31_ReturnedNone ==
    /\ spc = "apply"
    /\ playoff_results = EmptyTable
    /\ games[gi].game_id \in DOMAIN game_results["main"]
    /\ game_result = None
    /\ wins = [t \in Teams |-> 0]

(***************************************************************************)
(* Claims about the event log, the rosters and the players' points         *)
(***************************************************************************)
\* C32: the event log of a game is a complete history of its scoring: every
\* possession that changes a team's score appends exactly one event to the
\* game's event log.
C32_ScoringPossessionLogged ==
    [][ (PossessionStep /\ score' # score) => events' = events + 1 ]_vars

\* the first possession of a game was a made two-pointer of the home team and
\* the log holds only "Game started" and "Quarter 1 started"
C32_UnloggedBasket ==
    /\ quarters_run = <<1>>
    /\ play.type = "2PT"
    /\ play.points = 2
    /\ play.logged = 0
    /\ score[setup.team1] = 2
    /\ score[setup.team2] = 0
    /\ events = 2

\* C33: once NBA_Game is initialised, each of the two teams has at least one
\* player that get_random_player can return, whatever the two team ids are,
\* unknown or missing ids and rosters that share a player name included.
C33_BothTeamsHavePlayers ==
    \A t \in {setup.team1, setup.team2} : TeamPlayers(t) # {}

\* both team ids are missing, both rosters are the default one, every Player
\* belongs to team2, and a possession found no player for team1
C33_HomeTeamWithoutPlayers ==
    /\ setup.team1_id = NoId
    /\ setup.team2_id = NoId
    /\ DOMAIN players = DefaultRoster
    /\ TeamPlayers(setup.team1) = {}
    /\ TeamPlayers(setup.team2) = DefaultRoster
    /\ play.type = "none"
    /\ play.offense = setup.team1

\* the sum of the 'points' stat over the players in S
RECURSIVE PointsOf(_, _)
PointsOf(S, pts) ==
    IF S = {} THEN 0
    ELSE LET n == CHOOSE x \in S : TRUE
         IN  pts[n] + PointsOf(S \ {n}, pts)

\* the 'points' of the players of team in the stored player_stats
StoredPoints(team) ==
    LET stats == StoredResult.player_stats
        names == {n \in DOMAIN stats : stats[n].team = team}
    IN  PointsOf(names, [n \in DOMAIN stats |-> stats[n].points])

\* C34: between two possessions of a game, and in the stored result, each
\* team's score equals the sum of the 'points' stat over the players of that
\* team.
C34_ScoreIsSumOfPlayerPoints ==
    /\ \A t \in {setup.team1, setup.team2} :
          score[t] = PointsOf(TeamPlayers(t), points)
    /\ GameStored =>
          /\ StoredResult.score1 = StoredPoints(StoredResult.team1)
          /\ StoredResult.score2 = StoredPoints(StoredResult.team2)

\* the game of a home team of the default roster is stored: both default
\* players have scored, and the home score is more than either's points
C34_Witness ==
    /\ GameStored
    /\ gpc = "done"
    /\ setup.team1_id = NoId
    /\ TeamPlayers(setup.team1) = DefaultRoster
    /\ \A n \in DefaultRoster : StoredResult.player_stats[n].points > 0
    /\ StoredResult.score1 > StoredResult.player_stats["Player1"].points
    /\ StoredResult.score1 > StoredResult.player_stats["Player2"].points

(***************************************************************************)
(* Claims about the order of the games of a series                         *)
(***************************************************************************)
\* the game numbers of the games whose game task has run to its end
Finished == {games[n].game_num : n \in {k \in 1..series_games :
                 games[k].game_id \in DOMAIN game_results["main"]}}

\* a game of the series is being simulated: in its pool, or back from it
InFlight == spc \in {"pool", "lookup", "apply"}

CalledWithGames ==
    /\ call["main"] = "parallel_games"
    /\ mpc["main"] = "call"
    /\ Len(game_schedule["main"]) > 0
    /\ stalls = {}

\* C36: called on a schedule that is not empty, with venue tasks that stop at
\* their time limit, simulate_parallel_games eventually returns and every
\* task it submitted has run, although the pool has only len(game_schedule)
\* workers for four tasks per game.
C36_ReturnsWithEveryGameRun ==
    CalledWithGames =>
        <>( /\ mpc["main"] = "returned"
            /\ nsub["main"] = NumTasks("main")
            /\ \A t \in Tasks("main") : tstate["main"][t] \in {"done", "raised"} )

\* simulate_parallel_games has returned from a schedule of more than one
\* game: no task stalled or raised and every game wrote its result
C36_Witness ==
    /\ ParallelReturned
    /\ Len(game_schedule["main"]) > 1
    /\ stalls = {}
    /\ raises = {}
    /\ \A t \in Tasks("main") : tstate["main"][t] = "done"
    /\ \A t \in GameTasks("main") : t[1] \in DOMAIN game_results["main"]

\* the quarters of the game are over: four, and a fifth after a tie
QuartersOver ==
    /\ possessions = 0
    /\ quarters_completed = Len(quarters_run)
    /\ regulation # None
    /\ quarters_completed =
          (IF regulation[setup.team1] = regulation[setup.team2] THEN 5 ELSE 4)

\* C37: NBA_Game.run ends a game in this order: the result is put in the
\* result table only after the last quarter or the overtime has ended,
\* save_game_to_db is called only after that, game_ended is set only after
\* both, and nothing is appended to the event log once the result is stored.
C37_EndOfGameInOrder ==
    /\ [](GameStored => QuartersOver /\ gpc \in {"save", "signal", "done"})
    /\ [](gpc \in {"signal", "done"} => GameStored)
    /\ [][ /\ (gpc # "signal" /\ gpc' = "signal") => (gpc = "save" /\ GameStored)
           /\ (gpc # "done" /\ gpc' = "done") => (gpc = "signal" /\ GameStored)
           /\ GameStored => /\ events' = events
                            /\ game_results' = game_results
         ]_vars

\* a game that went to overtime has ended: its result is stored with the
\* whole log, it was saved and game_ended is set
C37_Witness ==
    /\ gpc = "done"
    /\ GameStored
    /\ quarters_completed = 5
    /\ StoredResult.events = events
    /\ events > 10

(***************************************************************************)
(* Claims about the game of scripts/nba_sim_v4_with_stats.py (V4Spec)      *)
(***************************************************************************)
\* C38: NBA_Game.run of scripts/nba_sim_v4_with_stats.py reaches the end of
\* the game and stores a result also when a team has no active player, every
\* possession is a no-op and the score stays at 0-0.
C38_RunEndsWithEmptyTeam ==
    (EmptyRoster /\ gpc = "start") ~> (gpc = "done" /\ GameStored)

\* a team has no active player, four quarters and more than one overtime
\* have been played without a point, and one more overtime is running
C38_OvertimeWithoutEnd ==
    /\ EmptyRoster
    /\ quarter = LastPeriod
    /\ quarters_completed >= 5
    /\ gpc = "possession"
    /\ play.type = "none"
    /\ score = [t \in {setup.team1, setup.team2} |-> 0]
    /\ ~ GameStored

(***************************************************************************)
(* Claims about the empty schedule (SchedSpec)                             *)
(***************************************************************************)
\* simulate_parallel_games was called on the empty schedule
EmptyCall ==
    /\ call["main"] = "parallel_games"
    /\ game_schedule["main"] = <<>>

\* C39: simulate_parallel_games called with an empty schedule returns
\* normally: it raises nothing, runs no task, leaves the result table as it
\* was and reaches its return.
C39_EmptyScheduleReturns ==
    /\ [](EmptyCall => /\ mpc["main"] # "raised"
                       /\ Tasks("main") = {}
                       /\ game_results["main"] = EmptyTable)
    /\ EmptyCall ~> (mpc["main"] = "returned")

\* the call on the empty schedule has ended with the ValueError of
\* ThreadPoolExecutor(max_workers=0), before any submit
C39_EmptyScheduleRaised ==
    /\ EmptyCall
    /\ mpc["main"] = "raised"
    /\ nsub["main"] = 0
    /\ game_results["main"] = EmptyTable

====
